---- MODULE Spec2Model ----
(***************************************************************************)
(* A model of tldraw-cli: the diagram DSL (tokenizer, instruction parser,  *)
(* stack/grid layout blocks), the layout engine, and the materialization   *)
(* of draw instructions into the document file (add / draw commands).      *)
(*                                                                         *)
(* Numbers are JavaScript doubles in the program; every number the model   *)
(* feeds in is an integer, so they are modelled as Int.  Strings are       *)
(* sequences of one-character strings.                                     *)
(***************************************************************************)
EXTENDS Integers, Sequences, FiniteSets, TLC

VARIABLES
    layoutArgs,    \* arguments of the pending stackShapes / gridShapes call
    layoutOut,     \* what the call returned: positioned shapes, or an error
    lexIn,         \* the line handed to tokenize, as the segments it is written from
    lexOut,        \* what tokenize returned: the tokens, or an error
    dslIn,         \* the DSL source handed to parseDsl, as the parts it is written from
    dslOut,        \* what parseDsl returned: the instruction list, or an error
    drawIn,        \* the lines of the DSL source handed to drawFromDsl
    drawFile,      \* the document file: its shape records and bindings
    drawBefore,    \* the document file as it was before drawFromDsl was called
    drawQueue,     \* the instructions applyDrawInstructions has not added yet
    drawIds,       \* the ids of the shapes added so far
    drawFresh,     \* how many addShapeToFile calls were made (fresh ids come from it)
    drawPc,        \* where drawFromDsl is: "parse", "add", "expand", "done"
    drawOut,       \* what drawFromDsl returned: the ids, or an error
    drawPrev,      \* the document file as the last addShapeToFile call read it
    drawLast,      \* the instruction of the last addShapeToFile call
    sizingIn,      \* a nested line of a layout block, as the parts it is written from
    sizingOut,     \* its dimensions in the layout, and the bounds of the shape drawn
    callArgs,      \* the arguments of the pending call of a function that keeps no state
    callOut,       \* what that call returned, or the error it threw
    readonly,      \* the preview server's config.readonly
    previewFile,   \* the content of the file at config.filePath
    clients,       \* the preview server's set of connected sockets
    greeting,      \* where each socket's connection handler is
    handlers,      \* the invocations of the socket message handler, in arrival order
    publishQueue,  \* the runPublish calls chained on publishQueue that have not settled
    publishing,    \* the document the running runPublish has read
    sent,          \* every message ws.send delivered, in the order it was sent
    adders         \* the addShapeToFile calls other processes make on the same file

layoutVars == <<layoutArgs, layoutOut>>
lexVars == <<lexIn, lexOut>>
dslVars == <<dslIn, dslOut>>
drawVars == <<drawIn, drawFile, drawBefore, drawQueue, drawIds, drawFresh, drawPc, drawOut,
              drawPrev, drawLast>>
sizingVars == <<sizingIn, sizingOut>>
callVars == <<callArgs, callOut>>
previewVars == <<readonly, previewFile, clients, greeting, handlers, publishQueue, publishing,
                 sent, adders>>
vars == <<layoutVars, lexVars, dslVars, drawVars, sizingVars, callVars, previewVars>>

\* A value standing for "not there" (undefined / not yet returned).
NoVal == "undefined"

Max(a, b) == IF a >= b THEN a ELSE b
Min(a, b) == IF a <= b THEN a ELSE b
MaxOf(S) == CHOOSE m \in S : \A n \in S : n <= m
MinOf(S) == CHOOSE m \in S : \A n \in S : m <= n

\* What a call returns: a value, or the Error it threw; Pending before it ran.
Pending == [tag |-> "pending"]
Ok(v) == [tag |-> "ok", value |-> v]
Err(msg) == [tag |-> "error", message |-> msg]
IsOk(r) == r.tag = "ok"
IsError(r) == r.tag = "error"

\* The variables of a component no call is pending on.
Idle == [tag |-> "idle"]
LayoutIdle == layoutArgs = Idle /\ layoutOut = Idle
LexIdle == lexIn = Idle /\ lexOut = Idle
DslIdle == dslIn = Idle /\ dslOut = Idle
DrawIdle ==
    /\ drawIn = Idle /\ drawFile = Idle /\ drawBefore = Idle /\ drawQueue = Idle
    /\ drawIds = Idle /\ drawFresh = Idle /\ drawPc = Idle /\ drawOut = Idle
    /\ drawPrev = Idle /\ drawLast = Idle
SizingIdle == sizingIn = Idle /\ sizingOut = Idle
CallIdle == callArgs = Idle /\ callOut = Idle
PreviewIdle ==
    /\ readonly = Idle /\ previewFile = Idle /\ clients = Idle /\ greeting = Idle
    /\ handlers = Idle /\ publishQueue = Idle /\ publishing = Idle /\ sent = Idle
    /\ adders = Idle

-----------------------------------------------------------------------------
(* Layout engine: store/layout.ts                                          *)

\* The numbers of the layout calls are integers.  NaN, Infinity and -Infinity
\* are written as three integers no other value of a call comes near, and a
\* fraction (1.5) as a fourth; they are only ever tested, never computed with.
NonFiniteNumbers == {1000001, 1000002, -1000002}
Fractions == {1000003}

\* Number.isFinite and Number.isInteger on the values the model feeds in.
IsFiniteNumber(v) == v \notin NonFiniteNumbers
IsInteger(v) == IsFiniteNumber(v) /\ v \notin Fractions

validateDimension(value) == IsFiniteNumber(value) /\ value > 0

\* A gap check that lets every gap through.
validateGapAny(gap) == TRUE

validateGap(gap) == IsFiniteNumber(gap) /\ gap >= 0

validateOrigin(origin) == IsFiniteNumber(origin.x) /\ IsFiniteNumber(origin.y)

\* A stack cursor that advances by the gap alone.
RECURSIVE StackCursorGapOnly(_, _, _, _, _)
StackCursorGapOnly(shapes, direction, origin, gap, i) ==
    IF i = 1 THEN origin
    ELSE LET prev == StackCursorGapOnly(shapes, direction, origin, gap, i - 1)
         IN  IF direction = "vertical"
             THEN [x |-> prev.x, y |-> prev.y + gap]
             ELSE [x |-> prev.x + gap, y |-> prev.y]

\* The cursor of stackShapes before shape number i (1-based): the loop of
\* shapes.map, each iteration advancing the cursor along the stacking axis.
RECURSIVE StackCursor(_, _, _, _, _)
StackCursor(shapes, direction, origin, gap, i) ==
    IF i = 1 THEN origin
    ELSE LET prev == StackCursor(shapes, direction, origin, gap, i - 1)
             shape == shapes[i - 1]
         IN  IF direction = "vertical"
             THEN [x |-> prev.x, y |-> prev.y + shape.h + gap]
             ELSE [x |-> prev.x + shape.w + gap, y |-> prev.y]

\* The error the first shape with an invalid dimension raises (shapes are
\* validated in order, width before height), or Pending when all are valid.
FirstInvalidDimension(shapes) ==
    LET bad == {i \in 1..Len(shapes) :
                   ~validateDimension(shapes[i].w) \/ ~validateDimension(shapes[i].h)}
    IN  IF bad = {} THEN Pending
        ELSE LET i == CHOOSE j \in bad : \A k \in bad : j <= k
             IN  IF ~validateDimension(shapes[i].w) THEN Err("Invalid width")
                 ELSE Err("Invalid height")

stackShapes(shapes, direction, origin, gap) ==
    IF ~validateOrigin(origin) THEN Err("Invalid origin")
    ELSE IF ~validateGap(gap) THEN Err("Invalid gap")
    ELSE IF FirstInvalidDimension(shapes) # Pending THEN FirstInvalidDimension(shapes)
    ELSE Ok([i \in 1..Len(shapes) |->
            LET c == StackCursor(shapes, direction, origin, gap, i)
            IN  [shape |-> shapes[i], x |-> c.x, y |-> c.y]])

\* Column widths that keep the last shape's width instead of the largest.
RECURSIVE GridColWidthsLast(_, _, _)
GridColWidthsLast(shapes, cols, k) ==
    IF k = 0 THEN [c \in 0..(cols - 1) |-> 0]
    ELSE [GridColWidthsLast(shapes, cols, k - 1) EXCEPT ![(k - 1) % cols] = shapes[k].w]

\* colWidths / rowHeights after the first k shapes were scanned (the first
\* for loop of gridShapes); both are 0-indexed arrays filled with 0.
RECURSIVE GridColWidths(_, _, _)
GridColWidths(shapes, cols, k) ==
    IF k = 0 THEN [c \in 0..(cols - 1) |-> 0]
    ELSE LET before == GridColWidths(shapes, cols, k - 1)
             col == (k - 1) % cols
         IN  [before EXCEPT ![col] = Max(before[col], shapes[k].w)]

RECURSIVE GridRowHeights(_, _, _, _)
GridRowHeights(shapes, cols, rowCount, k) ==
    IF k = 0 THEN [r \in 0..(rowCount - 1) |-> 0]
    ELSE LET before == GridRowHeights(shapes, cols, rowCount, k - 1)
             row == (k - 1) \div cols
         IN  [before EXCEPT ![row] = Max(before[row], shapes[k].h)]

\* Offsets that advance by the gap alone.
GridOffsetGapOnly(extents, start, gap, n) == start + n * gap

\* colOffsets[col] / rowOffsets[row]: the accumulating second and third loops.
RECURSIVE GridOffset(_, _, _, _)
GridOffset(extents, start, gap, n) ==
    IF n = 0 THEN start
    ELSE GridOffset(extents, start, gap, n - 1) + extents[n - 1] + gap

gridShapes(shapes, origin, cols, gap) ==
    IF ~validateOrigin(origin) THEN Err("Invalid origin")
    ELSE IF ~validateGap(gap) THEN Err("Invalid gap")
    ELSE IF ~(IsInteger(cols) /\ cols > 0) THEN Err("Invalid cols")
    ELSE IF Len(shapes) = 0 THEN Ok(<< >>)
    ELSE IF FirstInvalidDimension(shapes) # Pending THEN FirstInvalidDimension(shapes)
    ELSE LET rowCount == (Len(shapes) + cols - 1) \div cols
             colWidths == GridColWidths(shapes, cols, Len(shapes))
             rowHeights == GridRowHeights(shapes, cols, rowCount, Len(shapes))
             colOffsets == [c \in 0..(cols - 1) |-> GridOffset(colWidths, origin.x, gap, c)]
             rowOffsets == [r \in 0..(rowCount - 1) |-> GridOffset(rowHeights, origin.y, gap, r)]
         IN  Ok([i \in 1..Len(shapes) |->
                [shape |-> shapes[i],
                 x |-> colOffsets[(i - 1) % cols],
                 y |-> rowOffsets[(i - 1) \div cols]]])

\* Inputs of the layout calls.  0 and -1 are the invalid values.
MaxShapes == 3
LayoutDims == {0, 20, 30}
LayoutShapeSet == [w : LayoutDims, h : LayoutDims]
LayoutShapeLists == UNION {[1..n -> LayoutShapeSet] : n \in 0..MaxShapes}
LayoutOrigins == {[x |-> 5, y |-> 10], [x |-> -40, y |-> 0]}
LayoutGaps == {-1, 0, 7}
LayoutCols == {0, 1, 2}

\* Calls with numbers that are not finite, negative, or not whole.
OddDims == NonFiniteNumbers \cup {-5, 20}
OddShapeSet == [w : OddDims, h : {20}] \cup [w : {20}, h : OddDims]
OddShapeLists == UNION {[1..n -> OddShapeSet] : n \in 0..2}
OddOrigins ==
    {[x |-> 5, y |-> 10]}
    \cup [x : NonFiniteNumbers, y : {0}] \cup [x : {0}, y : NonFiniteNumbers]
OddGaps == NonFiniteNumbers \cup {7}
OddCols == NonFiniteNumbers \cup Fractions \cup {-2, 2}

LayoutCalls ==
    [fn : {"stackShapes"}, shapes : LayoutShapeLists,
     direction : {"vertical", "horizontal"}, origin : LayoutOrigins, gap : LayoutGaps]
    \cup
    [fn : {"gridShapes"}, shapes : LayoutShapeLists,
     origin : LayoutOrigins, cols : LayoutCols, gap : LayoutGaps]
    \cup
    [fn : {"stackShapes"}, shapes : OddShapeLists,
     direction : {"vertical"}, origin : OddOrigins, gap : OddGaps]
    \cup
    [fn : {"gridShapes"}, shapes : OddShapeLists,
     origin : OddOrigins, cols : OddCols, gap : OddGaps]

InitLayout ==
    /\ layoutArgs \in LayoutCalls
    /\ layoutOut = Pending
    /\ LexIdle /\ DslIdle /\ DrawIdle /\ SizingIdle /\ CallIdle
    /\ PreviewIdle

CallStackShapes ==
    /\ layoutOut = Pending
    /\ layoutArgs.fn = "stackShapes"
    /\ layoutOut' = stackShapes(layoutArgs.shapes, layoutArgs.direction,
                                layoutArgs.origin, layoutArgs.gap)
    /\ UNCHANGED <<layoutArgs, lexVars, dslVars, drawVars, sizingVars, callVars, previewVars>>

CallGridShapes ==
    /\ layoutOut = Pending
    /\ layoutArgs.fn = "gridShapes"
    /\ layoutOut' = gridShapes(layoutArgs.shapes, layoutArgs.origin,
                               layoutArgs.cols, layoutArgs.gap)
    /\ UNCHANGED <<layoutArgs, lexVars, dslVars, drawVars, sizingVars, callVars, previewVars>>

NextLayout == CallStackShapes \/ CallGridShapes

SpecLayout == InitLayout /\ [][NextLayout]_vars

ValidLayoutInput(a) ==
    /\ validateOrigin(a.origin)
    /\ IsFiniteNumber(a.gap) /\ a.gap >= 0
    /\ \A i \in 1..Len(a.shapes) :
           /\ IsFiniteNumber(a.shapes[i].w) /\ a.shapes[i].w > 0
           /\ IsFiniteNumber(a.shapes[i].h) /\ a.shapes[i].h > 0

\* C1: for every valid input stackShapes returns the shapes in input order,
\* the first at the origin, every shape's cross-axis coordinate equal to the
\* origin's, and each next shape's along-axis coordinate equal to the previous
\* shape's coordinate plus the previous shape's extent plus gap.
StackPlacement ==
    (layoutArgs.fn = "stackShapes" /\ layoutOut # Pending /\ ValidLayoutInput(layoutArgs)) =>
        LET a == layoutArgs
            out == layoutOut.value
            n == Len(a.shapes)
        IN  /\ IsOk(layoutOut)
            /\ Len(out) = n
            /\ \A i \in 1..n : out[i].shape = a.shapes[i]
            /\ n > 0 => (out[1].x = a.origin.x /\ out[1].y = a.origin.y)
            /\ \A i \in 1..n :
                 IF a.direction = "vertical"
                 THEN out[i].x = a.origin.x
                 ELSE out[i].y = a.origin.y
            /\ \A i \in 1..(n - 1) :
                 IF a.direction = "vertical"
                 THEN out[i + 1].y = out[i].y + a.shapes[i].h + a.gap
                 ELSE out[i + 1].x = out[i].x + a.shapes[i].w + a.gap

StackPlacementWitness ==
    /\ layoutArgs.fn = "stackShapes"
    /\ layoutOut # Pending
    /\ ValidLayoutInput(layoutArgs)
    /\ Len(layoutArgs.shapes) = MaxShapes
    /\ layoutArgs.gap > 0
    /\ layoutArgs.direction = "horizontal"
    /\ layoutArgs.shapes[1].w # layoutArgs.shapes[2].w
    /\ layoutOut.value[MaxShapes].x > layoutOut.value[2].x

\* The sum, over the indices in S, of f[i] + gap.
RECURSIVE SumPlusGap(_, _, _)
SumPlusGap(f, S, gap) ==
    IF S = {} THEN 0
    ELSE LET i == CHOOSE j \in S : TRUE
         IN  f[i] + gap + SumPlusGap(f, S \ {i}, gap)

SetMax(S) == CHOOSE m \in S : \A v \in S : v <= m

\* C2: gridShapes places the shape at index i at
\* x = origin.x + sum over columns c < (i mod cols) of (maxWidth[c] + gap) and
\* y = origin.y + sum over rows r < (i div cols) of (maxHeight[r] + gap).
GridPlacement ==
    (/\ layoutArgs.fn = "gridShapes" /\ layoutOut # Pending
     /\ ValidLayoutInput(layoutArgs)
     /\ IsInteger(layoutArgs.cols) /\ layoutArgs.cols > 0) =>
        LET a == layoutArgs
            out == layoutOut.value
            n == Len(a.shapes)
            Idx == 0..(n - 1)
            maxWidth == [c \in {i % a.cols : i \in Idx} |->
                            SetMax({a.shapes[i + 1].w : i \in {j \in Idx : j % a.cols = c}})]
            maxHeight == [r \in {i \div a.cols : i \in Idx} |->
                            SetMax({a.shapes[i + 1].h : i \in {j \in Idx : j \div a.cols = r}})]
        IN  /\ IsOk(layoutOut)
            /\ Len(out) = n
            /\ \A i \in Idx :
                 /\ out[i + 1].shape = a.shapes[i + 1]
                 /\ out[i + 1].x = a.origin.x
                        + SumPlusGap(maxWidth, {c \in 0..(a.cols - 1) : c < i % a.cols}, a.gap)
                 /\ out[i + 1].y = a.origin.y
                        + SumPlusGap(maxHeight, {r \in 0..(n - 1) : r < i \div a.cols}, a.gap)

GridPlacementWitness ==
    /\ layoutArgs.fn = "gridShapes"
    /\ layoutOut # Pending
    /\ ValidLayoutInput(layoutArgs)
    /\ layoutArgs.cols = 2
    /\ layoutArgs.gap > 0
    /\ Len(layoutArgs.shapes) = 3
    /\ layoutArgs.shapes[1].w < layoutArgs.shapes[3].w
    /\ layoutArgs.shapes[1].h < layoutArgs.shapes[2].h
    /\ layoutOut.value[2].x = layoutArgs.origin.x + layoutArgs.shapes[3].w + layoutArgs.gap
    /\ layoutOut.value[3].y = layoutArgs.origin.y + layoutArgs.shapes[2].h + layoutArgs.gap

-----------------------------------------------------------------------------
(* Strings.  A string is a TLA+ string; TLC reads Len, SubSeq and \o on it. *)

CharAt(s, i) == SubSeq(s, i, i)

\* /\s/ on the characters the model's lines are written from.
IsSpace(c) == c \in {" ", "\t"}

Digits == {"0", "1", "2", "3", "4", "5", "6", "7", "8", "9"}
IsDigit(c) == c \in Digits

\* String.prototype.trim
RECURSIVE TrimStart(_)
TrimStart(s) ==
    IF Len(s) > 0 /\ IsSpace(CharAt(s, 1)) THEN TrimStart(SubSeq(s, 2, Len(s))) ELSE s

RECURSIVE TrimEnd(_)
TrimEnd(s) ==
    IF Len(s) > 0 /\ IsSpace(CharAt(s, Len(s))) THEN TrimEnd(SubSeq(s, 1, Len(s) - 1)) ELSE s

Trim(s) == TrimEnd(TrimStart(s))

\* String.prototype.startsWith
StartsWith(s, prefix) ==
    Len(s) >= Len(prefix) /\ SubSeq(s, 1, Len(prefix)) = prefix

\* String.prototype.indexOf for a one-character needle, 1-based; 0 when absent.
IndexOfChar(s, c) ==
    LET hits == {i \in 1..Len(s) : CharAt(s, i) = c}
    IN  IF hits = {} THEN 0 ELSE CHOOSE i \in hits : \A j \in hits : i <= j

\* String.prototype.includes for a one-character needle.
IncludesChar(s, c) == IndexOfChar(s, c) > 0

\* String.prototype.split on a one-character separator.
RECURSIVE SplitOn(_, _)
SplitOn(s, c) ==
    LET i == IndexOfChar(s, c)
    IN  IF i = 0 THEN <<s>>
        ELSE <<SubSeq(s, 1, i - 1)>> \o SplitOn(SubSeq(s, i + 1, Len(s)), c)

\* Array.prototype.join(' ')
RECURSIVE JoinSpace(_)
JoinSpace(parts) ==
    IF Len(parts) = 0 THEN ""
    ELSE IF Len(parts) = 1 THEN parts[1]
    ELSE parts[1] \o " " \o JoinSpace(Tail(parts))

-----------------------------------------------------------------------------
(* Lexer: dsl/parser.ts                                                    *)

\* The body of stripInlineComment's loop, for the character at index k; cut is
\* the index of the `#` the function returned at, 0 while it has not returned.
StripStep(st, character, k) ==
    LET inQuotes == IF character = "\"" /\ ~st.escaped THEN ~st.inQuotes ELSE st.inQuotes
    IN  IF st.cut > 0 THEN st
        ELSE IF character = "#" /\ ~inQuotes
        THEN [st EXCEPT !.inQuotes = inQuotes, !.cut = k]
        ELSE [inQuotes |-> inQuotes,
              escaped |-> (character = "\\" /\ ~st.escaped),
              cut |-> 0]

\* The loop over the characters lo..hi, by halves (the order of the steps is
\* the loop's: left to right).
RECURSIVE StripScan(_, _, _, _)
StripScan(line, lo, hi, st) ==
    IF lo > hi THEN st
    ELSE IF lo = hi THEN StripStep(st, CharAt(line, lo), lo)
    ELSE LET mid == (lo + hi) \div 2
             left == StripScan(line, lo, mid, st)
         IN  IF left.cut > 0 THEN left ELSE StripScan(line, mid + 1, hi, left)

stripInlineComment(line) ==
    LET st == StripScan(line, 1, Len(line),
                        [inQuotes |-> FALSE, escaped |-> FALSE, cut |-> 0])
    IN  IF st.cut > 0 THEN SubSeq(line, 1, st.cut - 1) ELSE line

TokenizeStart ==
    [inQuotes |-> FALSE, escaped |-> FALSE, tokenIsQuoted |-> FALSE,
     current |-> "", tokens |-> << >>]

pushCurrent(st) ==
    IF Len(st.current) > 0
    THEN [st EXCEPT !.tokens = Append(@, [quoted |-> st.tokenIsQuoted, value |-> st.current]),
                    !.current = "",
                    !.tokenIsQuoted = FALSE]
    ELSE st

\* A loop body in which a quote closes the region even after a backslash.
TokenizeStepEscapeBlind(st, character) ==
    IF character = "\""
    THEN [st EXCEPT !.inQuotes = ~@, !.tokenIsQuoted = TRUE]
    ELSE IF ~st.inQuotes /\ IsSpace(character)
    THEN [pushCurrent(st) EXCEPT !.escaped = FALSE]
    ELSE IF character = "\\" /\ st.inQuotes /\ ~st.escaped
    THEN [st EXCEPT !.escaped = TRUE]
    ELSE [st EXCEPT !.current = @ \o character, !.escaped = FALSE]

\* The body of tokenize's loop, for one character.
TokenizeStep(st, character) ==
    IF character = "\"" /\ ~st.escaped
    THEN [st EXCEPT !.inQuotes = ~@, !.tokenIsQuoted = TRUE]
    ELSE IF ~st.inQuotes /\ IsSpace(character)
    THEN [pushCurrent(st) EXCEPT !.escaped = FALSE]
    ELSE IF character = "\\" /\ st.inQuotes /\ ~st.escaped
    THEN [st EXCEPT !.escaped = TRUE]
    ELSE [st EXCEPT !.current = @ \o character, !.escaped = FALSE]

\* The loop over the characters lo..hi, by halves (the order of the steps is
\* the loop's: left to right).
RECURSIVE TokenizeScan(_, _, _, _)
TokenizeScan(line, lo, hi, st) ==
    IF lo > hi THEN st
    ELSE IF lo = hi THEN TokenizeStep(st, CharAt(line, lo))
    ELSE LET mid == (lo + hi) \div 2
             left == TokenizeScan(line, lo, mid, st)
         IN  IF left.escaped \in BOOLEAN THEN TokenizeScan(line, mid + 1, hi, left) ELSE left

tokenize(line, context) ==
    LET st == TokenizeScan(line, 1, Len(line), TokenizeStart)
    IN  IF st.inQuotes THEN Err("Unterminated quote in " \o context)
        ELSE Ok(pushCurrent(st).tokens)

-----------------------------------------------------------------------------
(* Number and option-value parsers: commands/parsers.ts                    *)

UpperLetters == "ABCDEFGHIJKLMNOPQRSTUVWXYZ"
LowerLetters == "abcdefghijklmnopqrstuvwxyz"

\* String.prototype.toLowerCase
RECURSIVE ToLowerCase(_)
ToLowerCase(s) ==
    IF Len(s) = 0 THEN ""
    ELSE LET c == CharAt(s, 1)
             i == IndexOfChar(UpperLetters, c)
         IN  (IF i > 0 THEN CharAt(LowerLetters, i) ELSE c) \o ToLowerCase(SubSeq(s, 2, Len(s)))

AllDigits(s) == Len(s) > 0 /\ \A i \in 1..Len(s) : IsDigit(CharAt(s, i))

\* The regular expression \d+(\.\d+)? on the whole of s.
IsUnsignedDecimal(s) ==
    LET parts == SplitOn(s, ".")
    IN  \/ Len(parts) = 1 /\ AllDigits(parts[1])
        \/ Len(parts) = 2 /\ AllDigits(parts[1]) /\ AllDigits(parts[2])

\* -?\d+(\.\d+)? on the whole of s.
IsSignedDecimal(s) ==
    IF Len(s) > 0 /\ CharAt(s, 1) = "-"
    THEN IsUnsignedDecimal(SubSeq(s, 2, Len(s)))
    ELSE IsUnsignedDecimal(s)

DigitValue(c) == (CHOOSE i \in 1..10 : CharAt("0123456789", i) = c) - 1

RECURSIVE DigitsValue(_)
DigitsValue(s) ==
    IF Len(s) = 0 THEN 0
    ELSE DigitsValue(SubSeq(s, 1, Len(s) - 1)) * 10 + DigitValue(CharAt(s, Len(s)))

\* Number(value) followed by Number.isFinite, on integer literals: the empty
\* (or all-blank) string is 0, an optionally signed digit string its value,
\* anything else NaN.  The model's inputs hold no fraction, exponent, hex or
\* Infinity literal, the other strings Number() reads.
NumberOfTrimmed(t) ==
    IF t = "" THEN Ok(0)
    ELSE IF AllDigits(t) THEN Ok(DigitsValue(t))
    ELSE IF CharAt(t, 1) \in {"-", "+"} /\ AllDigits(SubSeq(t, 2, Len(t)))
    THEN Ok((IF CharAt(t, 1) = "-" THEN -1 ELSE 1) * DigitsValue(SubSeq(t, 2, Len(t))))
    ELSE Err("NaN")

ToNumber(value) == NumberOfTrimmed(Trim(value))

parseNumber(value, label) ==
    IF IsOk(ToNumber(value)) THEN ToNumber(value)
    ELSE Err("Invalid " \o label \o ": \"" \o value \o "\"")

parsePosition(value) ==
    LET parts == SplitOn(value, ",")
    IN  IF Len(parts) # 2 \/ parts[1] = "" \/ parts[2] = ""
        THEN Err("Invalid --pos \"" \o value \o "\". Expected format: x,y")
        ELSE LET x == parseNumber(Trim(parts[1]), "x position")
                 y == parseNumber(Trim(parts[2]), "y position")
             IN  IF IsError(x) THEN x
                 ELSE IF IsError(y) THEN y
                 ELSE Ok([x |-> x.value, y |-> y.value])

parsePositionOrNull(value) == parsePosition(value)

parseSize(value) ==
    LET parts == SplitOn(ToLowerCase(value), "x")
    IN  IF Len(parts) # 2 \/ parts[1] = "" \/ parts[2] = ""
        THEN Err("Invalid --size \"" \o value \o "\". Expected format: WxH")
        ELSE LET w == parseNumber(Trim(parts[1]), "width")
                 h == parseNumber(Trim(parts[2]), "height")
             IN  IF IsError(w) THEN w
                 ELSE IF IsError(h) THEN h
                 ELSE IF w.value <= 0 \/ h.value <= 0
                 THEN Err("Invalid --size \"" \o value \o "\". Width and height must be positive.")
                 ELSE Ok([h |-> h.value, w |-> w.value])

-----------------------------------------------------------------------------
(* Instruction parser: dsl/parser.ts                                       *)

isKeyValueToken(value) == IncludesChar(value, "=")

\* POSITION_TOKEN_PATTERN /^\s*-?\d+(\.\d+)?\s*,\s*-?\d+(\.\d+)?\s*$/
isPositionToken(value) ==
    LET parts == SplitOn(value, ",")
    IN  Len(parts) = 2 /\ IsSignedDecimal(Trim(parts[1])) /\ IsSignedDecimal(Trim(parts[2]))

\* DIMENSION_TOKEN_PATTERN /^\s*\d+(\.\d+)?x\d+(\.\d+)?\s*$/i
isDimensionToken(value) ==
    LET parts == SplitOn(ToLowerCase(value), "x")
    IN  Len(parts) = 2 /\ IsUnsignedDecimal(TrimStart(parts[1]))
                       /\ IsUnsignedDecimal(TrimEnd(parts[2]))

\* An options object: a function from the keys that are set to their values.
NoOptions == [k \in {} |-> ""]
Has(options, key) == key \in DOMAIN options
SetOption(options, key, value) ==
    [k \in DOMAIN options \cup {key} |-> IF k = key THEN value ELSE options[k]]
DropOption(options, key) == [k \in DOMAIN options \ {key} |-> options[k]]

OptionKeys ==
    {"color", "dash", "dimensions", "fill", "font", "from", "id", "label", "pos", "size", "to"}

parseKeyValue(token, context) ==
    LET separatorIndex == IndexOfChar(token.value, "=")
    IN  IF separatorIndex <= 1
        THEN Err("Expected key=value token in " \o context \o ": \"" \o token.value \o "\"")
        ELSE LET key == Trim(SubSeq(token.value, 1, separatorIndex - 1))
                 value == Trim(SubSeq(token.value, separatorIndex + 1, Len(token.value)))
             IN  IF Len(value) = 0
                 THEN Err("Missing value for \"" \o key \o "\" in " \o context)
                 ELSE Ok([key |-> key, value |-> value])

\* The switch of parseOptionToken on the key of a parsed key=value pair.
SetParsedOption(kv, options, context, allowPosition) ==
    IF IsError(kv) THEN kv
    ELSE IF kv.value.key = "pos" /\ ~allowPosition
    THEN Err("Position is not allowed in this context: " \o context)
    ELSE IF kv.value.key \in OptionKeys
    THEN Ok(SetOption(options, kv.value.key, kv.value.value))
    ELSE Err("Unsupported option \"" \o kv.value.key \o "\" in " \o context)

\* Returns the options with the token's key set, or the error thrown.
parseOptionToken(token, options, context, allowPosition) ==
    SetParsedOption(parseKeyValue(token, context), options, context, allowPosition)

\* The loop over the trailing tokens, from token number cursor (1-based) on;
\* ParsedOptionToken continues it with the outcome of one parseOptionToken.
RECURSIVE ParseOptionTokens(_, _, _, _, _)
ParsedOptionToken(tokens, cursor, parsed, context, allowPosition) ==
    IF IsError(parsed) THEN parsed
    ELSE ParseOptionTokens(tokens, cursor + 1, parsed.value, context, allowPosition)

ParseOptionTokens(tokens, cursor, options, context, allowPosition) ==
    IF cursor > Len(tokens) THEN Ok(options)
    ELSE IF ~isKeyValueToken(tokens[cursor].value)
    THEN Err("Unexpected token in " \o context \o ": \"" \o tokens[cursor].value \o "\"")
    ELSE ParsedOptionToken(tokens, cursor,
                           parseOptionToken(tokens[cursor], options, context, allowPosition),
                           context, allowPosition)

\* Array.prototype.findIndex, 1-based; 0 when no element satisfies P.
FindIndex(seq, P(_)) ==
    LET hits == {i \in 1..Len(seq) : P(seq[i])}
    IN  IF hits = {} THEN 0 ELSE CHOOSE i \in hits : \A j \in hits : i <= j

TokenValues(tokens) == [i \in 1..Len(tokens) |-> tokens[i].value]

\* The instruction parseArrowInstruction returns for the options it parsed.
ArrowInstruction(options) ==
    IF IsError(options) THEN options
    ELSE Ok([options |-> options.value, shape |-> "arrow"])

\* parseArrowInstruction once the connector and the first option are found
\* (optionStartIndex counts from the token after the connector; 0 = none).
ArrowEndpoints(tokens, context, connectorIndex, optionStartIndex) ==
    LET from == Trim(JoinSpace(TokenValues(SubSeq(tokens, 2, connectorIndex - 1))))
        toEnd == IF optionStartIndex = 0 THEN Len(tokens)
                 ELSE connectorIndex + optionStartIndex - 1
        to == Trim(JoinSpace(TokenValues(SubSeq(tokens, connectorIndex + 1, toEnd))))
    IN  IF from = "" \/ to = ""
        THEN Err("Invalid arrow endpoints in " \o context)
        ELSE ArrowInstruction(
                 ParseOptionTokens(tokens, toEnd + 1,
                                   SetOption(SetOption(NoOptions, "from", from), "to", to),
                                   context, TRUE))

parseArrowInstruction(tokens, context) ==
    LET IsMarker(token) == token.value = "->"
        IsKeyValue(token) == isKeyValueToken(token.value)
        connectorIndex == FindIndex(tokens, IsMarker)
    IN  IF connectorIndex <= 2 \/ connectorIndex >= Len(tokens)
        THEN Err("Invalid arrow syntax in " \o context \o "; expected: arrow <from> -> <to>")
        ELSE ArrowEndpoints(tokens, context, connectorIndex,
                            FindIndex(SubSeq(tokens, connectorIndex + 1, Len(tokens)),
                                      IsKeyValue))

DRAW_SHAPES == {"arrow", "ellipse", "frame", "note", "rect", "text"}

\* A reconciliation that lets the positional content win silently.
ReconcileContentNoConflict(shape, content, options, context) ==
    IF shape \in {"text", "note"}
    THEN LET textContent == IF content # "" THEN content
                            ELSE IF Has(options, "label") THEN options["label"] ELSE ""
             contentOptions == DropOption(options, "label")
         IN  IF textContent # ""
             THEN Ok([content |-> textContent, options |-> contentOptions, shape |-> shape])
             ELSE Ok([options |-> contentOptions, shape |-> shape])
    ELSE IF content # ""
         THEN Ok([options |-> SetOption(options, "label", content), shape |-> shape])
         ELSE Ok([options |-> options, shape |-> shape])

\* The instruction parseBasicShapeInstruction returns once the slots and the
\* options are read: content and label= reconciled.  A token never has an
\* empty value, so "" stands for a content that is not given (the code's
\* undefined, which it tests by truthiness).
ReconcileContent(shape, content, options, context) ==
    IF shape \in {"text", "note"}
    THEN IF content # "" /\ Has(options, "label") /\ options["label"] # content
         THEN Err("Text content was provided twice in " \o context)
         ELSE LET textContent == IF content # "" THEN content
                                 ELSE IF Has(options, "label") THEN options["label"] ELSE ""
                  contentOptions == DropOption(options, "label")
              IN  IF textContent # ""
                  THEN Ok([content |-> textContent, options |-> contentOptions, shape |-> shape])
                  ELSE Ok([options |-> contentOptions, shape |-> shape])
    ELSE IF content # ""
         THEN IF Has(options, "label") /\ options["label"] # content
              THEN Err("Label was provided twice in " \o context)
              ELSE Ok([options |-> SetOption(options, "label", content), shape |-> shape])
         ELSE Ok([options |-> options, shape |-> shape])

\* parseBasicShapeInstruction, slot by slot; cursor is the 1-based number of
\* the next token to read and options what the slots before it have set.
ShapeOptions(shape, content, options, context) ==
    IF IsError(options) THEN options
    ELSE ReconcileContent(shape, content, options.value, context)

ShapeContentSlot(tokens, context, allowPosition, shape, options, cursor) ==
    LET hasLabel == Len(tokens) >= cursor /\ ~isKeyValueToken(tokens[cursor].value)
    IN  ShapeOptions(shape,
                     IF hasLabel THEN tokens[cursor].value ELSE "",
                     ParseOptionTokens(tokens, IF hasLabel THEN cursor + 1 ELSE cursor,
                                       options, context, allowPosition),
                     context)

\* A dimension slot that is never taken: a WxH token falls to the content slot.
ShapeDimensionSlotSkipped(tokens, context, allowPosition, shape, options, cursor) ==
    ShapeContentSlot(tokens, context, allowPosition, shape, options, cursor)

ShapeDimensionSlot(tokens, context, allowPosition, shape, options, cursor) ==
    LET hasDimensions == Len(tokens) >= cursor /\ isDimensionToken(tokens[cursor].value)
    IN  ShapeContentSlot(tokens, context, allowPosition, shape,
                         IF hasDimensions THEN SetOption(options, "size", tokens[cursor].value)
                         ELSE options,
                         IF hasDimensions THEN cursor + 1 ELSE cursor)

ShapePositionSlot(tokens, context, allowPosition, shape, hasPosition) ==
    IF hasPosition /\ ~allowPosition
    THEN Err("Position is not allowed in " \o context)
    ELSE ShapeDimensionSlot(tokens, context, allowPosition, shape,
                            IF hasPosition THEN SetOption(NoOptions, "pos", tokens[2].value)
                            ELSE NoOptions,
                            IF hasPosition THEN 3 ELSE 2)

parseBasicShapeInstruction(tokens, context, allowPosition) ==
    LET shapeToken == IF Len(tokens) > 0 THEN tokens[1].value ELSE ""
    IN  IF shapeToken = "" \/ shapeToken \notin DRAW_SHAPES \/ shapeToken = "arrow"
        THEN Err("Unsupported shape in " \o context \o ": \"" \o shapeToken \o "\"")
        ELSE ShapePositionSlot(tokens, context, allowPosition, shapeToken,
                               Len(tokens) >= 2 /\ isPositionToken(tokens[2].value))

\* parseLineInstruction on the outcome of tokenize.
InstructionOfTokens(tokens, context, allowPosition) ==
    IF IsError(tokens) THEN tokens
    ELSE IF Len(tokens.value) = 0
    THEN Err("Expected a shape instruction in " \o context)
    ELSE IF tokens.value[1].value = "arrow"
    THEN parseArrowInstruction(tokens.value, context)
    ELSE parseBasicShapeInstruction(tokens.value, context, allowPosition)

parseLineInstruction(line, context, allowPosition) ==
    InstructionOfTokens(tokenize(line, context), context, allowPosition)

\* The whitespace-separated fields of a line (no quoting).
RECURSIVE Fields(_)
FieldsOfTrimmed(t) ==
    LET ends == {i \in 1..Len(t) : IsSpace(CharAt(t, i))}
    IN  IF t = "" THEN << >>
        ELSE IF ends = {} THEN <<t>>
        ELSE LET e == CHOOSE i \in ends : \A j \in ends : i <= j
             IN  <<SubSeq(t, 1, e - 1)>> \o Fields(SubSeq(t, e, Len(t)))

Fields(line) == FieldsOfTrimmed(TrimStart(line))

\* The tail "gap=<n>\s*[" of both header patterns, given as the fields that
\* follow the fixed ones; the text of <n>, or "" when it does not match.
GapFieldText(gapField) ==
    IF Len(gapField) > 4 /\ ToLowerCase(SubSeq(gapField, 1, 4)) = "gap="
       /\ IsUnsignedDecimal(SubSeq(gapField, 5, Len(gapField)))
    THEN SubSeq(gapField, 5, Len(gapField))
    ELSE ""

HeaderGapText(rest) ==
    GapFieldText(IF Len(rest) = 2 /\ rest[2] = "[" THEN rest[1]
                 ELSE IF Len(rest) = 1 /\ Len(rest[1]) > 0
                         /\ CharAt(rest[1], Len(rest[1])) = "["
                 THEN SubSeq(rest[1], 1, Len(rest[1]) - 1)
                 ELSE "")

\* The checks of parseStackHeader on the groups STACK_HEADER_PATTERN matched.
StackHeaderValues(direction, origin, gap, context) ==
    IF IsError(origin) THEN origin
    ELSE IF IsError(gap) \/ gap.value < 0
    THEN Err("Invalid stack gap in " \o context)
    ELSE Ok([direction |-> direction, gap |-> gap.value, origin |-> origin.value])

\* STACK_HEADER_PATTERN on the fields of the line; gapText is "" when the
\* tail does not match.
StackHeaderOfFields(f, gapText, context) ==
    IF ~(/\ Len(f) >= 4
         /\ ToLowerCase(f[1]) = "stack"
         /\ ToLowerCase(f[2]) \in {"vertical", "horizontal"}
         /\ gapText # "")
    THEN Err("Invalid stack syntax in " \o context)
    ELSE StackHeaderValues(ToLowerCase(f[2]), parsePosition(f[3]), ToNumber(gapText),
                           context)

HeaderTail(f) == IF Len(f) >= 4 THEN HeaderGapText(SubSeq(f, 4, Len(f))) ELSE ""

StackHeaderOfLine(f, context) == StackHeaderOfFields(f, HeaderTail(f), context)

parseStackHeader(line, context) == StackHeaderOfLine(Fields(line), context)

\* The checks of parseGridHeader on the groups GRID_HEADER_PATTERN matched.
GridHeaderValues(origin, cols, gap, context) ==
    IF IsError(origin) THEN origin
    ELSE IF IsError(cols) \/ cols.value <= 0
    THEN Err("Invalid grid cols in " \o context)
    ELSE IF IsError(gap) \/ gap.value < 0
    THEN Err("Invalid grid gap in " \o context)
    ELSE Ok([cols |-> cols.value, gap |-> gap.value, origin |-> origin.value])

\* The cols=(\d+) group of GRID_HEADER_PATTERN; "" when the field does not
\* match.
HeaderColsText(field) ==
    IF Len(field) > 5 /\ ToLowerCase(SubSeq(field, 1, 5)) = "cols="
       /\ AllDigits(SubSeq(field, 6, Len(field)))
    THEN SubSeq(field, 6, Len(field))
    ELSE ""

GridHeaderOfFields(f, colsText, gapText, context) ==
    IF ~(/\ Len(f) >= 4
         /\ ToLowerCase(f[1]) = "grid"
         /\ colsText # ""
         /\ gapText # "")
    THEN Err("Invalid grid syntax in " \o context)
    ELSE GridHeaderValues(parsePosition(f[2]), ToNumber(colsText), ToNumber(gapText),
                          context)

GridHeaderOfLine(f, context) ==
    GridHeaderOfFields(f, IF Len(f) >= 3 THEN HeaderColsText(f[3]) ELSE "", HeaderTail(f),
                       context)

parseGridHeader(line, context) == GridHeaderOfLine(Fields(line), context)

\* DEFAULT_DIMENSIONS, NOTE_DIMENSIONS_BY_SIZE, TEXT_LINE_HEIGHT_BY_SIZE of
\* dsl/parser.ts.
ParserDefaultDimensions ==
    [ellipse |-> [h |-> 120, w |-> 120],
     frame |-> [h |-> 260, w |-> 460],
     note |-> [h |-> 180, w |-> 220],
     rect |-> [h |-> 120, w |-> 220],
     text |-> [h |-> 40, w |-> 280]]

NOTE_DIMENSIONS_BY_SIZE ==
    [l |-> [h |-> 240, w |-> 280],
     m |-> [h |-> 180, w |-> 220],
     s |-> [h |-> 140, w |-> 180],
     xl |-> [h |-> 300, w |-> 340]]

TEXT_LINE_HEIGHT_BY_SIZE == [l |-> 36, m |-> 28, s |-> 22, xl |-> 44]

SizeTiers == {"l", "m", "s", "xl"}

ContentOf(instruction) == IF Has(instruction, "content") THEN instruction.content ELSE ""

\* The last three rules of resolveInstructionDimensions: the note size table,
\* the text line height times the line count, the default of the kind.
TableDimensions(instruction, options) ==
    IF instruction.shape = "note" /\ Has(options, "size") /\ options["size"] \in SizeTiers
    THEN Ok(NOTE_DIMENSIONS_BY_SIZE[options["size"]])
    ELSE IF instruction.shape = "text"
    THEN LET textSize == IF Has(options, "size") /\ options["size"] \in SizeTiers
                         THEN options["size"] ELSE "m"
             lineCount == Max(1, Len(SplitOn(ContentOf(instruction), "\n")))
         IN  Ok([h |-> TEXT_LINE_HEIGHT_BY_SIZE[textSize] * lineCount,
                 w |-> ParserDefaultDimensions["text"].w])
    ELSE Ok(ParserDefaultDimensions[instruction.shape])

resolveInstructionDimensions(instruction) ==
    LET options == instruction.options
    IN  IF instruction.shape = "arrow"
        THEN Err("Arrow instructions are not supported in stack/grid blocks")
        ELSE IF Has(options, "dimensions") \/ (Has(options, "size")
                                                /\ isDimensionToken(options["size"]))
        THEN parseSize(IF Has(options, "dimensions") THEN options["dimensions"]
                       ELSE options["size"])
        ELSE TableDimensions(instruction, options)

\* The nested-line loop of parseStackBlock / parseGridBlock from line number
\* index (1-based) on: the nested instructions and the index the loop stopped
\* at (the closing line, or Len(lines) + 1), or the error thrown.  BlockLine
\* is the loop body on the stripped line, BlockInstruction its end on the
\* outcome of parseLineInstruction.
RECURSIVE BlockLoop(_, _, _, _)
BlockInstruction(lines, index, nested, kind, parsed) ==
    IF IsError(parsed) THEN parsed
    ELSE IF parsed.value.shape = "arrow"
    THEN Err("Arrow instructions are not supported in " \o kind
             \o " blocks (line " \o ToString(index) \o ")")
    ELSE BlockLoop(lines, index + 1, Append(nested, parsed.value), kind)

BlockLine(lines, index, nested, kind, line) ==
    IF lines[index] = "" \/ Len(line) = 0 THEN BlockLoop(lines, index + 1, nested, kind)
    ELSE IF line = "]" THEN Ok([nested |-> nested, index |-> index])
    ELSE IF StartsWith(line, "stack ") \/ StartsWith(line, "grid ")
    THEN Err("Nested layout blocks are not supported (line " \o ToString(index) \o ")")
    ELSE BlockInstruction(lines, index, nested, kind,
                          parseLineInstruction(line, "line " \o ToString(index), FALSE))

BlockLoop(lines, index, nested, kind) ==
    IF index > Len(lines) THEN Ok([nested |-> nested, index |-> index])
    ELSE BlockLine(lines, index, nested, kind, Trim(stripInlineComment(lines[index])))

\* nested.map(...): each instruction with its resolved dimensions, or the
\* first error resolveInstructionDimensions throws.
ShapesOfDimensions(nested, dims) ==
    LET bad == {i \in 1..Len(nested) : IsError(dims[i])}
    IN  IF bad # {} THEN dims[CHOOSE i \in bad : \A j \in bad : i <= j]
        ELSE Ok([i \in 1..Len(nested) |->
                    [h |-> dims[i].value.h, w |-> dims[i].value.w, instruction |-> nested[i]]])

BlockShapes(nested) ==
    ShapesOfDimensions(nested,
                       [i \in 1..Len(nested) |-> resolveInstructionDimensions(nested[i])])

\* An entry's instruction positioned with the coordinates swapped.
PositionedInstructionSwapped(entry) ==
    [entry.shape.instruction EXCEPT
        !.options = SetOption(@, "pos", ToString(entry.y) \o "," \o ToString(entry.x))]

\* positioned.map(...): the entry's instruction with pos: `${entry.x},${entry.y}`.
PositionedInstruction(entry) ==
    [entry.shape.instruction EXCEPT
        !.options = SetOption(@, "pos", ToString(entry.x) \o "," \o ToString(entry.y))]

\* A closing check that takes the end of the input for a closing line.
IsUnterminatedNever(lines, index) == FALSE

\* The closing-line check after the loop: the loop ran off the input, or the
\* line it stopped at is not `]` once its comment is stripped.
IsUnterminated(lines, index) ==
    \/ index > Len(lines)
    \/ lines[index] = ""
    \/ Trim(stripInlineComment(lines[index])) # "]"

\* The result of a block parse for the placement the layout engine returned.
BlockResult(positioned, index) ==
    IF IsError(positioned) THEN positioned
    ELSE Ok([instructions |-> [i \in 1..Len(positioned.value) |->
                                  PositionedInstruction(positioned.value[i])],
             nextIndex |-> index])

PlaceStack(shapes, header) ==
    IF IsError(shapes) THEN shapes
    ELSE stackShapes(shapes.value, header.direction, header.origin, header.gap)

PlaceGrid(shapes, header) ==
    IF IsError(shapes) THEN shapes
    ELSE gridShapes(shapes.value, header.origin, header.cols, header.gap)

\* parseStackBlock after the nested-line loop: the closing-line check, the
\* layout call and the positioned instructions.
FinishStackBlock(lines, loop, header, context) ==
    IF IsError(loop) THEN loop
    ELSE IF IsUnterminated(lines, loop.value.index)
    THEN Err("Unterminated stack block starting at " \o context)
    ELSE BlockResult(PlaceStack(BlockShapes(loop.value.nested), header), loop.value.index)

StackBlockOfHeader(lines, startIndex, header, context) ==
    IF IsError(header) THEN header
    ELSE FinishStackBlock(lines, BlockLoop(lines, startIndex + 1, << >>, "stack"),
                          header.value, context)

parseStackBlock(lines, startIndex, headerLine) ==
    StackBlockOfHeader(lines, startIndex,
                       parseStackHeader(headerLine, "line " \o ToString(startIndex)),
                       "line " \o ToString(startIndex))

FinishGridBlock(lines, loop, header, context) ==
    IF IsError(loop) THEN loop
    ELSE IF IsUnterminated(lines, loop.value.index)
    THEN Err("Unterminated grid block starting at " \o context)
    ELSE BlockResult(PlaceGrid(BlockShapes(loop.value.nested), header), loop.value.index)

GridBlockOfHeader(lines, startIndex, header, context) ==
    IF IsError(header) THEN header
    ELSE FinishGridBlock(lines, BlockLoop(lines, startIndex + 1, << >>, "grid"),
                         header.value, context)

parseGridBlock(lines, startIndex, headerLine) ==
    GridBlockOfHeader(lines, startIndex,
                      parseGridHeader(headerLine, "line " \o ToString(startIndex)),
                      "line " \o ToString(startIndex))

\* The loop of parseDsl from line number index (1-based) on.  ParseDslLine is
\* the loop body on the stripped line; ParsedBlock and ParsedLine end it on
\* the outcome of the block parse or of parseLineInstruction.
RECURSIVE ParseDslLoop(_, _, _)
ParsedBlock(lines, instructions, parsedBlock) ==
    IF IsError(parsedBlock) THEN parsedBlock
    ELSE ParseDslLoop(lines, parsedBlock.value.nextIndex + 1,
                      instructions \o parsedBlock.value.instructions)

ParsedLine(lines, index, instructions, parsed) ==
    IF IsError(parsed) THEN parsed
    ELSE ParseDslLoop(lines, index + 1, Append(instructions, parsed.value))

ParseDslLine(lines, index, instructions, line) ==
    IF lines[index] = "" \/ Len(line) = 0 THEN ParseDslLoop(lines, index + 1, instructions)
    ELSE IF StartsWith(line, "stack ")
    THEN ParsedBlock(lines, instructions, parseStackBlock(lines, index, line))
    ELSE IF StartsWith(line, "grid ")
    THEN ParsedBlock(lines, instructions, parseGridBlock(lines, index, line))
    ELSE ParsedLine(lines, index, instructions,
                    parseLineInstruction(line, "line " \o ToString(index), TRUE))

ParseDslLoop(lines, index, instructions) ==
    IF index > Len(lines) THEN Ok(instructions)
    ELSE ParseDslLine(lines, index, instructions, Trim(stripInlineComment(lines[index])))

\* parseDsl on the lines input.split(/\r?\n/) yields.
parseDsl(lines) == ParseDslLoop(lines, 1, << >>)

\* Lines for tokenize are written from segments: a run of whitespace, an
\* unquoted word, or a double-quoted region whose payload is a sequence of
\* items, each a plain character or a backslash-escaped one.
Plain(c) == [esc |-> FALSE, c |-> c]
Escaped(c) == [esc |-> TRUE, c |-> c]

QuotedPayloads ==
    { << >>,
      <<Plain("a")>>,
      <<Plain("a"), Plain(" "), Plain("b")>>,
      <<Plain("#"), Plain("\t")>>,
      <<Escaped("\"")>>,
      <<Plain("a"), Escaped("\""), Plain(" ")>>,
      <<Escaped("\\")>>,
      <<Escaped("\\"), Escaped("\"")>>,
      <<Escaped("n"), Plain("=")>> }

ClosedSegments ==
    {[t |-> "ws", text |-> " "], [t |-> "ws", text |-> "\t"],
     [t |-> "word", text |-> "ab"], [t |-> "word", text |-> "k=v"],
     [t |-> "word", text |-> "\\"]}
    \cup {[t |-> "quoted", items |-> p] : p \in QuotedPayloads}

\* A quoted region the line ends in: it has no closing quote.
OpenSegments == {[t |-> "open", items |-> p] : p \in QuotedPayloads}

MaxSegments == 3

LexLines ==
    UNION {[1..n -> ClosedSegments] : n \in 0..MaxSegments}
    \cup UNION {{Append(l, o) : l \in [1..n -> ClosedSegments], o \in OpenSegments} :
                   n \in 0..(MaxSegments - 1)}

RECURSIVE RenderItems(_)
RenderItems(items) ==
    IF Len(items) = 0 THEN ""
    ELSE (IF items[1].esc THEN "\\" ELSE "") \o items[1].c \o RenderItems(Tail(items))

RenderSegment(seg) ==
    IF seg.t \in {"ws", "word"} THEN seg.text
    ELSE IF seg.t = "quoted" THEN "\"" \o RenderItems(seg.items) \o "\""
    ELSE "\"" \o RenderItems(seg.items)

RECURSIVE RenderLine(_)
RenderLine(segs) ==
    IF Len(segs) = 0 THEN "" ELSE RenderSegment(segs[1]) \o RenderLine(Tail(segs))

LexContexts == {"line 1", "line 12"}

InitLex ==
    /\ lexIn \in [segments : LexLines, context : LexContexts]
    /\ lexOut = Pending
    /\ LayoutIdle /\ DslIdle /\ DrawIdle /\ SizingIdle /\ CallIdle
    /\ PreviewIdle

CallTokenize ==
    /\ lexOut = Pending
    /\ lexOut' = tokenize(RenderLine(lexIn.segments), lexIn.context)
    /\ UNCHANGED <<lexIn, layoutVars, dslVars, drawVars, sizingVars, callVars, previewVars>>

NextLex == CallTokenize

SpecLex == InitLex /\ [][NextLex]_vars

\* The characters a segment contributes to its token.
RECURSIVE PayloadText(_)
PayloadText(items) ==
    IF Len(items) = 0 THEN "" ELSE items[1].c \o PayloadText(Tail(items))

SegmentText(seg) == IF seg.t = "word" THEN seg.text ELSE PayloadText(seg.items)

\* The token texts the segments spell: whitespace segments separate, every
\* other segment adds its characters to the token being read.
RECURSIVE TokenTexts(_, _)
TokenTexts(segs, current) ==
    IF Len(segs) = 0 THEN (IF current = "" THEN << >> ELSE <<current>>)
    ELSE IF segs[1].t = "ws"
         THEN (IF current = "" THEN << >> ELSE <<current>>) \o TokenTexts(Tail(segs), "")
         ELSE TokenTexts(Tail(segs), current \o SegmentText(segs[1]))

EndsInsideQuotes(segs) == Len(segs) > 0 /\ segs[Len(segs)].t = "open"

\* C10: tokenize splits a line at whitespace outside quotes; a quoted region
\* gives all its characters (whitespace included, the quotes removed) to one
\* token; inside quotes a backslash is dropped and the next character taken
\* literally, an escaped quote not closing the region; a line that ends inside
\* a quoted region fails with an unterminated-quote error naming the line.
TokenizeSplitsOutsideQuotes ==
    lexOut # Pending /\ lexOut # Idle =>
        IF EndsInsideQuotes(lexIn.segments)
        THEN lexOut = Err("Unterminated quote in " \o lexIn.context)
        ELSE /\ IsOk(lexOut)
             /\ [i \in 1..Len(lexOut.value) |-> lexOut.value[i].value]
                    = TokenTexts(lexIn.segments, "")

TokenizeWitness ==
    /\ lexOut # Pending /\ lexOut # Idle
    /\ IsOk(lexOut)
    /\ Len(lexOut.value) = 2
    /\ lexOut.value[2].value = "a\" "
    /\ lexIn.segments[3] = [t |-> "quoted", items |-> <<Plain("a"), Escaped("\""), Plain(" ")>>]

TokenizeUnterminatedWitness ==
    /\ IsError(lexOut)
    /\ Len(lexIn.segments) = MaxSegments

-----------------------------------------------------------------------------
(* DSL sources for parseDsl.                                                *)

\* One shape line, written from its slots ("" = slot not used); the content
\* is written in double quotes.
ShapeLineSlots ==
    [form : {"line"},
     kind : {"rect", "ellipse", "text", "note", "frame"},
     position : {"", "0,0"},
     size : {"", "100x30"},
     content : {"", "Hello", "Hi there"},
     label : {"", "Hello", "World"},
     extra : {"", "color=red"}]

NonEmpty(parts) == SelectSeq(parts, LAMBDA part : part # "")

RenderShapeLine(slots) ==
    JoinSpace(NonEmpty(<<slots.kind, slots.position, slots.size,
                         IF slots.content = "" THEN "" ELSE "\"" \o slots.content \o "\"",
                         IF slots.label = "" THEN "" ELSE "label=" \o slots.label,
                         slots.extra>>))

\* One layout block with a line before and after it.  A header carries the
\* values it spells; a nested line carries what kind of line it is and, for a
\* shape line, the width and height its options spell.
BlockHeaders ==
    {[text |-> "stack vertical 10,20 gap=15 [", kind |-> "stack", direction |-> "vertical",
      origin |-> [x |-> 10, y |-> 20], gap |-> 15, cols |-> 0],
     [text |-> "stack horizontal 0,0 gap=0[", kind |-> "stack", direction |-> "horizontal",
      origin |-> [x |-> 0, y |-> 0], gap |-> 0, cols |-> 0],
     [text |-> "grid 5,-10 cols=2 gap=10 [", kind |-> "grid", direction |-> "",
      origin |-> [x |-> 5, y |-> -10], gap |-> 10, cols |-> 2]}

NestedLines ==
    {[text |-> "rect 100x30 \"Top\"", cls |-> "shape", w |-> 100, h |-> 30],
     [text |-> "  text \"Hi\" size=l # big", cls |-> "shape", w |-> 280, h |-> 36],
     [text |-> "note \"N\" size=s", cls |-> "shape", w |-> 180, h |-> 140],
     [text |-> "note 10,20 \"A\"", cls |-> "positioned", w |-> 0, h |-> 0],
     [text |-> "rect \"A\" pos=1,2", cls |-> "positioned", w |-> 0, h |-> 0],
     [text |-> "arrow \"Top\" -> \"N\"", cls |-> "arrow", w |-> 0, h |-> 0],
     [text |-> "grid 0,0 cols=1 gap=1 [", cls |-> "header", w |-> 0, h |-> 0],
     [text |-> "# only a comment", cls |-> "blank", w |-> 0, h |-> 0]}

OuterLines ==
    {[text |-> "", cls |-> "blank"],
     [text |-> "frame 0,0 \"Z\"", cls |-> "shape"]}

MaxNested == 2

BlockSources ==
    [form : {"block"},
     before : OuterLines,
     header : BlockHeaders,
     nested : UNION {[1..n -> NestedLines] : n \in 0..MaxNested},
     closing : {"]", "  ] # close the block", ""},
     after : {[text |-> "", cls |-> "blank"], [text |-> "ellipse \"End\"", cls |-> "shape"]}]

\* A shape line written from a kind and the tokens after it, on line 2 after
\* a comment line.  The quoted token is the only one written in quotes.
ShapeTokenKinds == {"rect", "ellipse", "text", "note", "frame", "circle"}

ShapeTokenAlphabet ==
    {"0,0", "800x60", "\"Header\"", "fill=semi", "color=blue", "bogus=1", "color=", "stray"}

MaxLineTokens == 3

ShapeTokenSources ==
    [form : {"shapeTokens"},
     kind : ShapeTokenKinds,
     tokens : UNION {[1..n -> ShapeTokenAlphabet] : n \in 0..MaxLineTokens}]

\* An arrow line written from the tokens after the keyword, on line 2.
ArrowTokenAlphabet == {"A", "Node", "->", "color=red", "from=C", "bogus=1", "\" A\""}

MaxArrowTokens == 4

ArrowTokenSources ==
    [form : {"arrowTokens"},
     kind : {"arrow"},
     tokens : UNION {[1..n -> ArrowTokenAlphabet] : n \in 0..MaxArrowTokens}]

\* A shape line with one style option, `kind 0,0 key=value`, on line 2; the
\* values are inside the enumeration of some keys and outside that of others,
\* or outside all of them.
StyleKeys == {"color", "fill", "dash", "size", "font"}

StyleSources ==
    [form : {"styleTokens"},
     kind : {"rect", "ellipse", "text", "note", "frame"},
     key : StyleKeys,
     value : {"red", "semi", "dashed", "m", "mono", "pink", "checker", "huge"}]

\* A line with one token written in double quotes: `kind "text"` for a shape,
\* `arrow A "text" B` for an arrow.
QuotedTexts == {"0,0", "800x60", "a=b", "color=red", "->", "Header"}

QuotedTokenSources == [form : {"quotedToken"}, kind : {"rect", "note", "arrow"}, text : QuotedTexts]

RenderQuotedLine(src) ==
    IF src.kind = "arrow" THEN "arrow A \"" \o src.text \o "\" B"
    ELSE src.kind \o " \"" \o src.text \o "\""

SourceLines(src) ==
    IF src.form = "line" THEN <<RenderShapeLine(src)>>
    ELSE IF src.form = "quotedToken" THEN <<RenderQuotedLine(src)>>
    ELSE IF src.form = "styleTokens"
    THEN <<"# comment", JoinSpace(<<src.kind, "0,0", src.key \o "=" \o src.value>>)>>
    ELSE IF src.form \in {"shapeTokens", "arrowTokens"}
    THEN <<"# comment", JoinSpace(<<src.kind>> \o src.tokens)>>
    ELSE <<src.before.text, src.header.text>>
         \o [i \in 1..Len(src.nested) |-> src.nested[i].text]
         \o (IF src.closing = "" THEN << >> ELSE <<src.closing>>)
         \o <<src.after.text>>

InitDsl ==
    /\ dslIn \in ShapeLineSlots \cup BlockSources \cup ShapeTokenSources
                \cup ArrowTokenSources \cup StyleSources \cup QuotedTokenSources
    /\ dslOut = Pending
    /\ LayoutIdle /\ LexIdle /\ DrawIdle /\ SizingIdle /\ CallIdle
    /\ PreviewIdle

CallParseDsl ==
    /\ dslOut = Pending
    /\ dslOut' = parseDsl(SourceLines(dslIn))
    /\ UNCHANGED <<dslIn, layoutVars, lexVars, drawVars, sizingVars, callVars, previewVars>>

NextDsl == CallParseDsl

SpecDsl == InitDsl /\ [][NextDsl]_vars

DslDone == dslOut # Pending /\ dslOut # Idle

IsBlockSource == DslDone /\ dslIn.form = "block"

NestedOfClass(src, classes) == {i \in 1..Len(src.nested) : src.nested[i].cls \in classes}

\* C7: a block that holds an arrow instruction or a nested stack/grid header,
\* or that has no closing `]` line before the end of the input, makes parseDsl
\* fail; a block of shape lines closed by `]`, with or without a trailing
\* comment on that line, is accepted.
BlockWellFormedness ==
    IsBlockSource =>
        /\ (NestedOfClass(dslIn, {"arrow", "header"}) # {} \/ dslIn.closing = "")
               => IsError(dslOut)
        /\ (NestedOfClass(dslIn, {"arrow", "header", "positioned"}) = {} /\ dslIn.closing # "")
               => IsOk(dslOut)

BlockArrowWitness ==
    /\ IsBlockSource
    /\ dslIn.closing = "]"
    /\ Len(dslIn.nested) = 2
    /\ dslIn.nested[1].cls = "shape" /\ dslIn.nested[2].cls = "arrow"
    /\ dslIn.header.kind = "stack" /\ dslIn.header.direction = "vertical"
    /\ dslOut = Err("Arrow instructions are not supported in stack blocks (line 4)")

BlockUnterminatedWitness ==
    /\ IsBlockSource
    /\ dslIn.closing = ""
    /\ NestedOfClass(dslIn, {"shape"}) = 1..Len(dslIn.nested)
    /\ dslIn.header.kind = "grid"
    /\ dslOut = Err("Unterminated grid block starting at line 2")

BlockTrailingCommentWitness ==
    /\ IsBlockSource
    /\ dslIn.closing = "  ] # close the block"
    /\ Len(dslIn.nested) = 2
    /\ IsOk(dslOut)

\* The shape lines of a block, in order, as the layout engine's input.
RECURSIVE BlockShapeDims(_)
BlockShapeDims(nested) ==
    IF Len(nested) = 0 THEN << >>
    ELSE (IF nested[1].cls = "shape" THEN <<[w |-> nested[1].w, h |-> nested[1].h]>> ELSE << >>)
         \o BlockShapeDims(Tail(nested))

\* The placement the layout engine computes for the block's shapes.
BlockPlacement(src) ==
    IF src.header.kind = "stack"
    THEN stackShapes(BlockShapeDims(src.nested), src.header.direction,
                     src.header.origin, src.header.gap)
    ELSE gridShapes(BlockShapeDims(src.nested), src.header.origin,
                    src.header.cols, src.header.gap)

\* The number of instructions parseDsl emits before those of the block.
BlockOffset(src) == IF src.before.cls = "shape" THEN 1 ELSE 0

\* C8: every instruction emitted from inside a block carries as options.pos
\* the position "x,y" the layout engine computed for it; a nested line with a
\* position of its own (an x,y token in the position slot, or pos=) makes the
\* parse fail.
BlockPositionsComputed ==
    IsBlockSource =>
        /\ NestedOfClass(dslIn, {"positioned"}) # {} => IsError(dslOut)
        /\ IsOk(dslOut) =>
               LET placed == BlockPlacement(dslIn).value
               IN  \A i \in 1..Len(placed) :
                       LET instruction == dslOut.value[BlockOffset(dslIn) + i]
                       IN  /\ Has(instruction.options, "pos")
                           /\ instruction.options["pos"]
                                  = ToString(placed[i].x) \o "," \o ToString(placed[i].y)

BlockPositionsWitness ==
    /\ IsBlockSource
    /\ IsOk(dslOut)
    /\ dslIn.header.kind = "grid"
    /\ Len(dslIn.nested) = 2
    /\ NestedOfClass(dslIn, {"shape"}) = {1, 2}
    /\ dslIn.nested[1].w = 100
    /\ dslOut.value[BlockOffset(dslIn) + 2].options["pos"] = "115,-10"

BlockOwnPositionWitness ==
    /\ IsBlockSource
    /\ dslIn.closing = "]"
    /\ Len(dslIn.nested) = 1
    /\ dslIn.nested[1].text = "rect \"A\" pos=1,2"
    /\ dslOut = Err("Position is not allowed in this context: line 3")

IsLineSource == DslDone /\ dslIn.form = "line"

\* C9: on a shape line, positional content and label= that differ make the
\* parse fail ("provided twice"); otherwise the one value is emitted once: as
\* content, with no label key in the options, for text and note; as the label
\* option, with no content field, for rect, ellipse and frame.
ContentLabelReconciled ==
    IsLineSource =>
        LET content == dslIn.content
            label == dslIn.label
            value == IF content # "" THEN content ELSE label
        IN  IF content # "" /\ label # "" /\ content # label
            THEN dslOut = Err((IF dslIn.kind \in {"text", "note"}
                               THEN "Text content was provided twice in "
                               ELSE "Label was provided twice in ") \o "line 1")
            ELSE /\ IsOk(dslOut)
                 /\ Len(dslOut.value) = 1
                 /\ LET instruction == dslOut.value[1]
                    IN  /\ instruction.shape = dslIn.kind
                        /\ IF dslIn.kind \in {"text", "note"}
                           THEN /\ ~Has(instruction.options, "label")
                                /\ IF value = "" THEN ~Has(instruction, "content")
                                   ELSE Has(instruction, "content")
                                        /\ instruction.content = value
                           ELSE /\ ~Has(instruction, "content")
                                /\ IF value = "" THEN ~Has(instruction.options, "label")
                                   ELSE Has(instruction.options, "label")
                                        /\ instruction.options["label"] = value

ContentLabelConflictWitness ==
    /\ IsLineSource
    /\ dslIn.kind = "rect" /\ dslIn.content = "Hi there" /\ dslIn.label = "World"
    /\ dslOut = Err("Label was provided twice in line 1")

ContentLabelSameWitness ==
    /\ IsLineSource
    /\ dslIn.kind = "note" /\ dslIn.content = "Hello" /\ dslIn.label = "Hello"
    /\ IsOk(dslOut)
    /\ dslOut.value[1].content = "Hello"

-----------------------------------------------------------------------------
(* Text metrics and geometry: store/text.ts, store/shapes.ts                *)

\* Array.prototype.join('\n')
RECURSIVE JoinLines(_)
JoinLines(parts) ==
    IF Len(parts) = 0 THEN ""
    ELSE IF Len(parts) = 1 THEN parts[1]
    ELSE parts[1] \o "\n" \o JoinLines(Tail(parts))

\* toRichText: one paragraph for each line of the text.
toRichText(text) == SplitOn(text, "\n")

\* richTextToPlainText: the paragraphs trimmed, the empty ones dropped, joined
\* by newlines.
richTextToPlainText(richText) ==
    JoinLines(SelectSeq([i \in 1..Len(richText) |-> Trim(richText[i])],
                        LAMBDA line : Len(line) > 0))

\* AVG_CHAR_WIDTHS, in half pixels (7.5 and 9.5 are among the widths).
AVG_CHAR_WIDTHS_X2 ==
    [draw |-> [l |-> 28, m |-> 22, s |-> 16, xl |-> 36],
     mono |-> [l |-> 26, m |-> 20, s |-> 15, xl |-> 32],
     sans |-> [l |-> 24, m |-> 19, s |-> 14, xl |-> 30],
     serif |-> [l |-> 24, m |-> 19, s |-> 14, xl |-> 30]]

GEO_LABEL_H_PADDING == 40
GEO_LABEL_V_PADDING == 36

\* TEXT_LINE_HEIGHT_BY_SIZE and NOTE_DIMENSIONS_BY_SIZE of store/text.ts.
TextLineHeightBySize == [l |-> 36, m |-> 28, s |-> 22, xl |-> 44]

\* TEXT_LINE_HEIGHT_BY_SIZE and NOTE_DIMENSIONS_BY_SIZE of store/shapes.ts.
ShapeTextLineHeightBySize == [l |-> 36, m |-> 28, s |-> 22, xl |-> 44]

ShapeNoteDimensionsBySize ==
    [l |-> [h |-> 240, w |-> 280],
     m |-> [h |-> 180, w |-> 220],
     s |-> [h |-> 140, w |-> 180],
     xl |-> [h |-> 300, w |-> 340]]

\* Math.max over the lengths of the lines.
RECURSIVE LongestLength(_)
LongestLength(lines) ==
    IF Len(lines) = 0 THEN 0 ELSE Max(Len(lines[1]), LongestLength(Tail(lines)))

\* estimateLabelDimensions; "" stands for a size or font that is not given.
\* Math.ceil(n * charWidth) is (n * 2 charWidth + 1) \div 2.
LabelDimensions(lines, resolvedSize, resolvedFont) ==
    [h |-> Max(1, Len(lines)) * TextLineHeightBySize[resolvedSize] + GEO_LABEL_V_PADDING,
     w |-> ((LongestLength(lines) * AVG_CHAR_WIDTHS_X2[resolvedFont][resolvedSize] + 1) \div 2)
               + GEO_LABEL_H_PADDING]

estimateLabelDimensions(label, size, font) ==
    LabelDimensions(SplitOn(label, "\n"),
                    IF size \in DOMAIN TextLineHeightBySize THEN size ELSE "m",
                    IF font \in DOMAIN AVG_CHAR_WIDTHS_X2 THEN font ELSE "draw")

Abs(n) == IF n < 0 THEN -n ELSE n

\* getShapeSize.  An arrow record holds its two end points in page
\* coordinates (fromPoint, toPoint) where the program's holds the origin x, y
\* and the points relative to it: x + props.start.x is fromPoint.x.
getShapeSize(shape) ==
    IF shape.type \in {"geo", "frame"} THEN [h |-> shape.props.h, w |-> shape.props.w]
    ELSE IF shape.type = "text"
    THEN [h |-> Max(1, Len(SplitOn(richTextToPlainText(shape.props.richText), "\n")))
                    * ShapeTextLineHeightBySize[shape.props.size],
          w |-> Max(40, shape.props.w)]
    ELSE IF shape.type = "note" THEN ShapeNoteDimensionsBySize[shape.props.size]
    ELSE [h |-> Max(1, Abs(shape.props.toPoint.y - shape.props.fromPoint.y)),
          w |-> Max(1, Abs(shape.props.toPoint.x - shape.props.fromPoint.x))]

getShapeBounds(shape) ==
    IF shape.type = "arrow"
    THEN [h |-> Abs(shape.props.toPoint.y - shape.props.fromPoint.y),
          w |-> Abs(shape.props.toPoint.x - shape.props.fromPoint.x),
          x |-> Min(shape.props.fromPoint.x, shape.props.toPoint.x),
          y |-> Min(shape.props.fromPoint.y, shape.props.toPoint.y)]
    ELSE [h |-> getShapeSize(shape).h, w |-> getShapeSize(shape).w,
          x |-> shape.x, y |-> shape.y]

\* getShapeCenter, doubled: x2 is twice the centre's x, so that the half of an
\* odd width stays an integer.
CenterOfBounds(bounds) == [x2 |-> 2 * bounds.x + bounds.w, y2 |-> 2 * bounds.y + bounds.h]

getShapeCenter(shape) == CenterOfBounds(getShapeBounds(shape))

\* getShapeLabel; "" stands for null (no target of an arrow is empty).
getShapeLabel(shape) ==
    IF shape.type = "frame" THEN Trim(shape.props.name)
    ELSE Trim(richTextToPlainText(shape.props.richText))

\* getShapeBorderPoint, kept as a term: the point where the ray from the
\* shape's centre toward the target leaves the shape.
getShapeBorderPoint(shape, towardPoint) == [border |-> shape.id, toward |-> towardPoint]

-----------------------------------------------------------------------------
(* Option values: commands/parsers.ts                                       *)

\* The values of the style enumerations of @tldraw/tlschema, a library: the
\* values the repository's sources and tests name (the library may know more).
DefaultColorStyleValues ==
    {"black", "grey", "light-violet", "violet", "blue", "light-blue", "yellow", "orange",
     "green", "light-green", "light-red", "red", "white"}
DefaultDashStyleValues == {"draw", "solid", "dashed", "dotted"}
DefaultFillStyleValues == {"none", "semi", "solid", "pattern"}
DefaultFontStyleValues == {"draw", "sans", "serif", "mono"}
DefaultSizeStyleValues == {"s", "m", "l", "xl"}

\* parseEnumValue; the message ends with the allowed values, which the model
\* leaves out.
parseEnumValue(value, allowed, label) ==
    IF value \notin allowed
    THEN Err("Invalid " \o label \o ": \"" \o value \o "\"")
    ELSE Ok(value)

parseColor(value) == parseEnumValue(value, DefaultColorStyleValues, "color")
parseDash(value) == parseEnumValue(value, DefaultDashStyleValues, "dash")
parseFill(value) == parseEnumValue(value, DefaultFillStyleValues, "fill")
parseFont(value) == parseEnumValue(value, DefaultFontStyleValues, "font")
parseShapeSize(value) == parseEnumValue(value, DefaultSizeStyleValues, "size")

-----------------------------------------------------------------------------
(* Shape records: store/factory.ts                                          *)

DEFAULT_COLOR == "black"
DEFAULT_DASH == "draw"
DEFAULT_FILL == "none"
DEFAULT_FONT == "draw"
DEFAULT_SIZE == "m"

\* input.key ?? fallback, on a style whose keys are the ones that are set.
StyleOr(style, key, fallback) == IF Has(style, key) THEN style[key] ELSE fallback

\* normalizeShapeId; createShapeId() without an argument returns the fresh id.
normalizeShapeId(style, freshId) ==
    IF ~Has(style, "id") THEN freshId
    ELSE IF StartsWith(style["id"], "shape:") THEN style["id"]
    ELSE "shape:" \o style["id"]

createGeoShape(style, geo, w, h, label, index, position, freshId) ==
    [id |-> normalizeShapeId(style, freshId), index |-> index, type |-> "geo",
     x |-> position.x, y |-> position.y,
     props |-> [color |-> StyleOr(style, "color", DEFAULT_COLOR),
                dash |-> StyleOr(style, "dash", DEFAULT_DASH),
                fill |-> StyleOr(style, "fill", DEFAULT_FILL),
                font |-> StyleOr(style, "font", DEFAULT_FONT),
                geo |-> geo, h |-> h, richText |-> toRichText(label),
                size |-> StyleOr(style, "size", DEFAULT_SIZE), w |-> w]]

createTextShape(style, autoSize, text, w, index, position, freshId) ==
    [id |-> normalizeShapeId(style, freshId), index |-> index, type |-> "text",
     x |-> position.x, y |-> position.y,
     props |-> [autoSize |-> autoSize,
                color |-> StyleOr(style, "color", DEFAULT_COLOR),
                font |-> StyleOr(style, "font", DEFAULT_FONT),
                richText |-> toRichText(text),
                size |-> StyleOr(style, "size", DEFAULT_SIZE), w |-> w]]

createFrameShape(style, w, h, name, index, position, freshId) ==
    [id |-> normalizeShapeId(style, freshId), index |-> index, type |-> "frame",
     x |-> position.x, y |-> position.y,
     props |-> [color |-> StyleOr(style, "color", DEFAULT_COLOR),
                h |-> h, name |-> name, w |-> w]]

createNoteShape(style, text, index, position, freshId) ==
    [id |-> normalizeShapeId(style, freshId), index |-> index, type |-> "note",
     x |-> position.x, y |-> position.y,
     props |-> [color |-> StyleOr(style, "color", "yellow"),
                font |-> StyleOr(style, "font", DEFAULT_FONT),
                richText |-> toRichText(text),
                size |-> StyleOr(style, "size", DEFAULT_SIZE)]]

\* createArrowShape: the record's x, y (the smaller of the end points'
\* coordinates) and props.start, props.end (the end points relative to x, y)
\* are held as the two end points themselves.
createArrowShape(style, fromPoint, toPoint, label, index, freshId) ==
    [id |-> normalizeShapeId(style, freshId), index |-> index, type |-> "arrow",
     props |-> [color |-> StyleOr(style, "color", DEFAULT_COLOR),
                dash |-> StyleOr(style, "dash", DEFAULT_DASH),
                fill |-> StyleOr(style, "fill", DEFAULT_FILL),
                font |-> StyleOr(style, "font", DEFAULT_FONT),
                fromPoint |-> fromPoint, richText |-> toRichText(label),
                size |-> StyleOr(style, "size", DEFAULT_SIZE), toPoint |-> toPoint]]

-----------------------------------------------------------------------------
(* Adding a shape to a document file: commands/add.ts, store/layout.ts      *)

\* A document file: the shape records of its page in store order, and the
\* arrow binding records.
EmptyFile == [shapes |-> << >>, bindings |-> << >>]

\* store.put of one record: it replaces the record that has its id, or is
\* added after the others.
PutRecord(records, record) ==
    IF \E i \in 1..Len(records) : records[i].id = record.id
    THEN [i \in 1..Len(records) |-> IF records[i].id = record.id THEN record ELSE records[i]]
    ELSE Append(records, record)

RECURSIVE PutRecords(_, _)
PutRecords(records, added) ==
    IF Len(added) = 0 THEN records
    ELSE PutRecords(PutRecord(records, added[1]), Tail(added))

SUPPORTED_SHAPES == {"arrow", "ellipse", "frame", "note", "rect", "text"}

DEFAULT_DIMENSIONS_BY_SHAPE ==
    [ellipse |-> [h |-> 120, w |-> 120],
     frame |-> [h |-> 260, w |-> 460],
     rect |-> [h |-> 120, w |-> 220],
     text |-> [h |-> 40, w |-> 280]]

resolveShapeType(shape) ==
    IF shape \notin SUPPORTED_SHAPES
    THEN Err("Unsupported shape \"" \o shape
             \o "\". Supported: arrow, ellipse, frame, note, rect, text")
    ELSE Ok(shape)

\* Index keys are fractional-index strings in the program; the model holds
\* their rank: getIndexAbove(undefined) is 1, getIndexAbove(k) is k + 1 and
\* getIndexBelow(k) is k - 1.
getIndexAbove(index) == index + 1
getIndexBelow(index) == index - 1

getNextIndex(shapes) ==
    IF Len(shapes) = 0 THEN 1
    ELSE getIndexAbove(MaxOf({shapes[i].index : i \in 1..Len(shapes)}))

\* autoPlace on a page that has shapes: below the lowest bottom edge.
autoPlace(shapes) ==
    [x |-> 0,
     y |-> MaxOf({getShapeBounds(shapes[i]).y + getShapeBounds(shapes[i]).h :
                     i \in 1..Len(shapes)}) + 40]

resolvePosition(options, shapes) ==
    IF Has(options, "pos") THEN parsePosition(options["pos"])
    ELSE IF Len(shapes) = 0 THEN Ok([x |-> 0, y |-> 0])
    ELSE Ok(autoPlace(shapes))

\* null, for a value that is a record when it is there.
Null == [tag |-> "null"]

\* The `if (options.size)` block of resolveSizeOptions; sizeStyle "" stands
\* for null.
SizeOption(sizeValue, rawSize, dimensions) ==
    IF isDimensionToken(sizeValue)
    THEN IF IsError(parseSize(sizeValue)) THEN parseSize(sizeValue)
         ELSE Ok([dimensions |-> parseSize(sizeValue).value, sizeStyle |-> ""])
    ELSE IF IncludesChar(ToLowerCase(sizeValue), "x")
    THEN Err("Invalid --size \"" \o rawSize \o "\". Use WxH or one of s,m,l,xl.")
    ELSE IF IsError(parseShapeSize(sizeValue)) THEN parseShapeSize(sizeValue)
    ELSE Ok([dimensions |-> dimensions, sizeStyle |-> sizeValue])

SizeOptionsAfterDimensions(options, dimensions) ==
    IF IsError(dimensions) THEN dimensions
    ELSE IF Has(options, "size")
    THEN SizeOption(Trim(options["size"]), options["size"], dimensions.value)
    ELSE Ok([dimensions |-> dimensions.value, sizeStyle |-> ""])

resolveSizeOptions(options) ==
    SizeOptionsAfterDimensions(options,
                               IF Has(options, "dimensions")
                               THEN parseSize(options["dimensions"])
                               ELSE Ok(Null))

\* An arrow target that misses falls back to the page origin.
resolveArrowTargetOrOrigin(target, shapes) ==
    LET byId == {i \in 1..Len(shapes) : shapes[i].id = target}
        byLabel == {i \in 1..Len(shapes) : getShapeLabel(shapes[i]) = target}
        found == IF byId # {} THEN byId ELSE byLabel
    IN  IF IsOk(parsePositionOrNull(target))
        THEN Ok([point |-> parsePositionOrNull(target).value])
        ELSE IF found # {}
        THEN Ok([point |-> getShapeCenter(shapes[MinOf(found)]),
                 shape |-> shapes[MinOf(found)]])
        ELSE Ok([point |-> [x |-> 0, y |-> 0]])

\* resolveArrowTarget: a coordinate, else the first shape with that id, else
\* the first shape with that label.  The result has a shape field only when a
\* shape was found; the centre of a shape is doubled (x2, y2).
resolveArrowTarget(target, shapes) ==
    LET byId == {i \in 1..Len(shapes) : shapes[i].id = target}
        byLabel == {i \in 1..Len(shapes) : getShapeLabel(shapes[i]) = target}
        found == IF byId # {} THEN byId ELSE byLabel
    IN  IF IsOk(parsePositionOrNull(target))
        THEN Ok([point |-> parsePositionOrNull(target).value])
        ELSE IF found # {}
        THEN Ok([point |-> getShapeCenter(shapes[MinOf(found)]),
                 shape |-> shapes[MinOf(found)]])
        ELSE Err("Unable to resolve arrow target \"" \o target
                 \o "\" to a coordinate or shape")

BothTargets(from, to) ==
    IF IsError(from) THEN from
    ELSE IF IsError(to) THEN to
    ELSE Ok([from |-> from.value, to |-> to.value])

\* fromTarget and toTarget of addShapeToFile; Null when the shape is no arrow.
ArrowTargets(shape, options, shapes) ==
    IF shape # "arrow" THEN Ok(Null)
    ELSE IF ~Has(options, "from") \/ ~Has(options, "to")
    THEN Err("Arrow shapes require both --from and --to")
    ELSE BothTargets(resolveArrowTarget(options["from"], shapes),
                     resolveArrowTarget(options["to"], shapes))

\* options.key ? parse(options.key) : nothing
StyleOption(options, key, allowed) ==
    IF Has(options, key) THEN parseEnumValue(options[key], allowed, key) ELSE Ok("")

\* The position addShapeToFile resolves.  The record of an arrow takes no
\* position and autoPlace does not throw, so the place autoPlace finds for an
\* arrow is left out.
PositionFor(shape, options, shapes) ==
    IF shape = "arrow" /\ ~Has(options, "pos") THEN Ok(Null)
    ELSE resolvePosition(options, shapes)

\* What addShapeToFile computes before it builds the record, in the order it
\* computes it; the first error is the one it throws.
AddChecks(shape, options, shapes) ==
    <<resolveShapeType(shape),
      PositionFor(shape, options, shapes),
      resolveSizeOptions(options),
      StyleOption(options, "color", DefaultColorStyleValues),
      StyleOption(options, "dash", DefaultDashStyleValues),
      StyleOption(options, "fill", DefaultFillStyleValues),
      StyleOption(options, "font", DefaultFontStyleValues),
      ArrowTargets(shape, options, shapes)>>

FirstError(results) ==
    LET bad == {i \in 1..Len(results) : IsError(results[i])}
    IN  IF bad = {} THEN Ok(Null) ELSE results[MinOf(bad)]

\* sharedStyle: the style keys that are set.
SharedStyle(options, sizeStyle) ==
    [k \in {key \in {"color", "dash", "fill", "font", "id"} : Has(options, key)}
           \cup (IF sizeStyle # "" THEN {"size"} ELSE {}) |->
        IF k = "size" THEN sizeStyle ELSE options[k]]

\* A label that widens the shape and never heightens it.
expandForLabelWidthOnly(baseDimensions, label, sizeStyle, font) ==
    IF label = "" THEN baseDimensions
    ELSE [h |-> baseDimensions.h,
          w |-> Max(baseDimensions.w, estimateLabelDimensions(label, sizeStyle, font).w)]

expandForLabel(baseDimensions, label, sizeStyle, font) ==
    IF label = "" THEN baseDimensions
    ELSE [h |-> Max(baseDimensions.h, estimateLabelDimensions(label, sizeStyle, font).h),
          w |-> Max(baseDimensions.w, estimateLabelDimensions(label, sizeStyle, font).w)]

\* dimensions ?? DEFAULT_DIMENSIONS_BY_SHAPE[shape]
DimensionsOr(dimensions, shape) ==
    IF dimensions = Null THEN DEFAULT_DIMENSIONS_BY_SHAPE[shape] ELSE dimensions

\* a ?? b ?? c on strings, "" standing for undefined.
Coalesce(a, b, c) == IF a # "" THEN a ELSE IF b # "" THEN b ELSE c

GeoRecord(geo, dimensions, label, style, index, position, freshId) ==
    createGeoShape(style, geo, dimensions.w, dimensions.h, label, index, position, freshId)

ArrowEndPoint(target, other) ==
    IF Has(target, "shape") THEN getShapeBorderPoint(target.shape, other.point)
    ELSE target.point

\* The shapeRecord of addShapeToFile; content and label "" stand for
\* undefined.
ShapeRecord(shape, content, label, sizes, style, font, targets, index, position, freshId) ==
    IF shape = "rect"
    THEN GeoRecord("rectangle",
                   expandForLabel(DimensionsOr(sizes.dimensions, "rect"), label,
                                  sizes.sizeStyle, font),
                   label, style, index, position, freshId)
    ELSE IF shape = "ellipse"
    THEN GeoRecord("ellipse",
                   expandForLabel(DimensionsOr(sizes.dimensions, "ellipse"), label,
                                  sizes.sizeStyle, font),
                   label, style, index, position, freshId)
    ELSE IF shape = "text"
    THEN createTextShape(style, sizes.dimensions = Null, Coalesce(content, label, ""),
                         DimensionsOr(sizes.dimensions, "text").w, index, position, freshId)
    ELSE IF shape = "frame"
    THEN createFrameShape(style, DimensionsOr(sizes.dimensions, "frame").w,
                          DimensionsOr(sizes.dimensions, "frame").h,
                          Coalesce(label, content, "Frame"), index, position, freshId)
    ELSE IF shape = "note"
    THEN createNoteShape(style, Coalesce(content, label, ""), index, position, freshId)
    ELSE createArrowShape(style, ArrowEndPoint(targets.from, targets.to),
                          ArrowEndPoint(targets.to, targets.from),
                          Coalesce(label, content, ""), index, freshId)

ArrowBinding(id, arrowId, shapeId, terminal) ==
    [id |-> id, fromId |-> arrowId, toId |-> shapeId, terminal |-> terminal]

\* Bindings for the start of an arrow only.
ArrowBindingsStartOnly(arrowId, targets, fresh) ==
    IF targets = Null THEN << >>
    ELSE IF Has(targets.from, "shape")
    THEN <<ArrowBinding("binding:g" \o ToString(fresh) \o "a", arrowId,
                        targets.from.shape.id, "start")>>
    ELSE << >>

\* The bindings addShapeToFile creates: one for each end that is a shape.
\* createBindingId() returns a fresh id.
ArrowBindings(arrowId, targets, fresh) ==
    IF targets = Null THEN << >>
    ELSE (IF Has(targets.from, "shape")
          THEN <<ArrowBinding("binding:g" \o ToString(fresh) \o "a", arrowId,
                              targets.from.shape.id, "start")>>
          ELSE << >>)
         \o (IF Has(targets.to, "shape")
             THEN <<ArrowBinding("binding:g" \o ToString(fresh) \o "b", arrowId,
                                 targets.to.shape.id, "end")>>
             ELSE << >>)

\* store.put([shapeRecord]), store.put(bindings), writeTldrawFile: the file
\* written and the id returned.
WriteShape(file, record, targets, fresh) ==
    Ok([file |-> [shapes |-> PutRecord(file.shapes, record),
                  bindings |-> PutRecords(file.bindings,
                                          ArrowBindings(record.id, targets, fresh))],
        id |-> record.id])

AddAfterChecks(file, shape, content, options, fresh, checks) ==
    IF IsError(FirstError(checks)) THEN FirstError(checks)
    ELSE WriteShape(file,
                    ShapeRecord(shape, content, StyleOr(options, "label", ""),
                                checks[3].value,
                                SharedStyle(options, checks[3].value.sizeStyle),
                                StyleOr(options, "font", ""),
                                checks[8].value, getNextIndex(file.shapes),
                                checks[2].value, "shape:g" \o ToString(fresh)),
                    checks[8].value, fresh)

\* addShapeToFile on the file as it is read: the file as it is written and
\* the id of the new shape, or the error thrown (nothing is written then).
\* fresh numbers the call; the ids it makes up are built from it.
addShapeToFile(file, shape, content, options, fresh) ==
    AddAfterChecks(file, shape, content, options, fresh,
                   AddChecks(shape, options, file.shapes))

-----------------------------------------------------------------------------
(* Drawing a batch: commands/draw.ts                                        *)

FRAME_EXPANSION_PADDING == 20
FRAME_CONTAINMENT_TOLERANCE == 200

\* isShapeContainedByFrame, on the doubled centre of the shape.
isShapeContainedByFrame(shape, frame) ==
    /\ getShapeCenter(shape).x2 >= 2 * (frame.x - FRAME_CONTAINMENT_TOLERANCE)
    /\ getShapeCenter(shape).x2 <= 2 * (frame.x + frame.props.w + FRAME_CONTAINMENT_TOLERANCE)
    /\ getShapeCenter(shape).y2 >= 2 * (frame.y - FRAME_CONTAINMENT_TOLERANCE)
    /\ getShapeCenter(shape).y2 <= 2 * (frame.y + frame.props.h + FRAME_CONTAINMENT_TOLERANCE)

\* A frame grown to the bounds of its shapes with no padding around them.
ExpandedFrameUnpadded(frame, bounds) ==
    LET newX == Min(frame.x, MinOf({b.x : b \in bounds}))
        newY == Min(frame.y, MinOf({b.y : b \in bounds}))
        right == Max(frame.x + frame.props.w, MaxOf({b.x + b.w : b \in bounds}))
        bottom == Max(frame.y + frame.props.h, MaxOf({b.y + b.h : b \in bounds}))
    IN  [frame EXCEPT !.x = newX, !.y = newY, !.props.w = right - newX,
                      !.props.h = bottom - newY]

\* The frame expandFramesToFitContents puts for a frame and the bounds of the
\* shapes it contains (a non-empty set); the frame itself when nothing changes.
ExpandedFrame(frame, bounds) ==
    LET newX == Min(frame.x, MinOf({b.x : b \in bounds}) - FRAME_EXPANSION_PADDING)
        newY == Min(frame.y, MinOf({b.y : b \in bounds}) - FRAME_EXPANSION_PADDING)
        right == Max(frame.x + frame.props.w,
                     MaxOf({b.x + b.w : b \in bounds}) + FRAME_EXPANSION_PADDING)
        bottom == Max(frame.y + frame.props.h,
                      MaxOf({b.y + b.h : b \in bounds}) + FRAME_EXPANSION_PADDING)
    IN  [frame EXCEPT !.x = newX, !.y = newY, !.props.w = right - newX,
                      !.props.h = bottom - newY]

ContainedBounds(shapes, frame) ==
    {getShapeBounds(shapes[i]) :
        i \in {j \in 1..Len(shapes) : /\ shapes[j].type # "frame"
                                      /\ isShapeContainedByFrame(shapes[j], frame)}}

\* expandFramesToFitContents: the file it leaves (it writes only when a frame
\* changed, and then writes this).
expandFramesToFitContents(file) ==
    [file EXCEPT !.shapes =
        [i \in 1..Len(file.shapes) |->
            IF file.shapes[i].type = "frame" /\ ContainedBounds(file.shapes, file.shapes[i]) # {}
            THEN ExpandedFrame(file.shapes[i], ContainedBounds(file.shapes, file.shapes[i]))
            ELSE file.shapes[i]]]

\* The updates of reindexFramesToBottom for the frames that are left, in
\* store order.
RECURSIVE FrameIndexUpdates(_, _, _)
FrameIndexUpdates(frames, lowestNonFrameIndex, nextFrameIndex) ==
    IF Len(frames) = 0 THEN << >>
    ELSE IF frames[1].index >= lowestNonFrameIndex
    THEN <<[frames[1] EXCEPT !.index = nextFrameIndex]>>
         \o FrameIndexUpdates(Tail(frames), lowestNonFrameIndex,
                              getIndexBelow(nextFrameIndex))
    ELSE FrameIndexUpdates(Tail(frames), lowestNonFrameIndex, nextFrameIndex)

ReindexBelow(file, lowestNonFrameIndex) ==
    [file EXCEPT !.shapes =
        PutRecords(@, FrameIndexUpdates(SelectSeq(file.shapes,
                                                  LAMBDA shape : shape.type = "frame"),
                                        lowestNonFrameIndex,
                                        getIndexBelow(lowestNonFrameIndex)))]

\* A batch that leaves the frames where they were added.
reindexFramesToBottomNever(file) == file

\* reindexFramesToBottom: the file it leaves.
reindexFramesToBottom(file) ==
    IF \/ \A i \in 1..Len(file.shapes) : file.shapes[i].type # "frame"
       \/ \A i \in 1..Len(file.shapes) : file.shapes[i].type = "frame"
    THEN file
    ELSE ReindexBelow(file, MinOf({file.shapes[i].index :
                                      i \in {j \in 1..Len(file.shapes) :
                                                file.shapes[j].type # "frame"}}))

\* The lines of the sources drawFromDsl is given.
DrawLines ==
    {"rect 0,0 \"A\" id=a",
     "arrow \"A\" -> \"B\"",
     "arrow shape:a -> 400,60",
     "arrow 0,0 -> 10,10",
     "arrow \"A\" -> \"Missing\"",
     "rect 0,200 \"C\" color=pink",
     "blob 0,0",
     "frame \"F\"",
     "frame 500,500 200x100 \"I\""}

\* The lines that put an arrow with an end on a shape, and the lines after
\* which the bounds of every shape on the page are read.
BoundArrowLines == {"arrow \"A\" -> \"B\"", "arrow shape:a -> 400,60"}
BoundsReadingLines == {"frame \"F\"", "frame 500,500 200x100 \"I\""}

MaxBatch == 3

\* The end points of an arrow bound to a shape are border points, which the
\* model holds as terms: the sources are those that never read the bounds of
\* such an arrow.
DrawSources ==
    {lines \in UNION {[1..n -> DrawLines] : n \in 1..MaxBatch} :
        ~(/\ \E i \in 1..Len(lines) : lines[i] \in BoundArrowLines
          /\ \E i \in 1..Len(lines) : lines[i] \in BoundsReadingLines)}

\* The files a batch is drawn into: a new document, and one that holds an
\* ellipse labelled B.
SeedFile ==
    addShapeToFile(EmptyFile, "ellipse", "", SetOption(SetOption(NoOptions, "pos", "300,0"),
                                                        "label", "B"), 0).value.file

InitialFiles == {EmptyFile, SeedFile}

InitDraw ==
    /\ drawIn \in DrawSources
    /\ drawFile \in InitialFiles
    /\ drawBefore = drawFile
    /\ drawPrev = drawFile
    /\ drawLast = Idle
    /\ drawQueue = << >>
    /\ drawIds = << >>
    /\ drawFresh = 0
    /\ drawPc = "parse"
    /\ drawOut = Pending
    /\ LayoutIdle /\ LexIdle /\ DslIdle /\ SizingIdle /\ CallIdle
    /\ PreviewIdle

DrawParsed(parsed) ==
    /\ drawQueue' = IF IsError(parsed) THEN << >> ELSE parsed.value
    /\ drawOut' = IF IsError(parsed) THEN parsed ELSE drawOut
    /\ drawPc' = IF IsError(parsed) THEN "done" ELSE "add"

\* drawFromDsl: parseDsl, before the file is touched.
DrawParse ==
    /\ drawPc = "parse"
    /\ DrawParsed(parseDsl(drawIn))
    /\ UNCHANGED <<drawIn, drawFile, drawBefore, drawPrev, drawLast, drawIds, drawFresh>>
    /\ UNCHANGED <<layoutVars, lexVars, dslVars, sizingVars, callVars, previewVars>>

DrawAdded(added) ==
    /\ drawFile' = IF IsError(added) THEN drawFile ELSE added.value.file
    /\ drawIds' = IF IsError(added) THEN drawIds ELSE Append(drawIds, added.value.id)
    /\ drawOut' = IF IsError(added) THEN added ELSE drawOut
    /\ drawPc' = IF IsError(added) THEN "done" ELSE "add"

\* A loop that takes the instructions from the end of the list.
DrawAddShapeFromEnd ==
    /\ drawPc = "add"
    /\ drawQueue # << >>
    /\ DrawAdded(addShapeToFile(drawFile, drawQueue[Len(drawQueue)].shape,
                                ContentOf(drawQueue[Len(drawQueue)]),
                                drawQueue[Len(drawQueue)].options, drawFresh + 1))
    /\ drawPrev' = drawFile
    /\ drawLast' = drawQueue[Len(drawQueue)]
    /\ drawQueue' = SubSeq(drawQueue, 1, Len(drawQueue) - 1)
    /\ drawFresh' = drawFresh + 1
    /\ UNCHANGED <<drawIn, drawBefore>>
    /\ UNCHANGED <<layoutVars, lexVars, dslVars, sizingVars, callVars, previewVars>>

\* One turn of the loop of applyDrawInstructions: addShapeToFile on the next
\* instruction reads the file, and writes it unless it throws.
DrawAddShape ==
    /\ drawPc = "add"
    /\ drawQueue # << >>
    /\ DrawAdded(addShapeToFile(drawFile, Head(drawQueue).shape, ContentOf(Head(drawQueue)),
                                Head(drawQueue).options, drawFresh + 1))
    /\ drawPrev' = drawFile
    /\ drawLast' = Head(drawQueue)
    /\ drawQueue' = Tail(drawQueue)
    /\ drawFresh' = drawFresh + 1
    /\ UNCHANGED <<drawIn, drawBefore>>
    /\ UNCHANGED <<layoutVars, lexVars, dslVars, sizingVars, callVars, previewVars>>

\* After the loop: reindexFramesToBottom.
DrawReindexFrames ==
    /\ drawPc = "add"
    /\ drawQueue = << >>
    /\ drawFile' = reindexFramesToBottom(drawFile)
    /\ drawPc' = "expand"
    /\ UNCHANGED <<drawIn, drawBefore, drawPrev, drawLast, drawQueue, drawIds, drawFresh,
                   drawOut>>
    /\ UNCHANGED <<layoutVars, lexVars, dslVars, sizingVars, callVars, previewVars>>

\* Then expandFramesToFitContents, and the ids are returned.
DrawExpandFrames ==
    /\ drawPc = "expand"
    /\ drawFile' = expandFramesToFitContents(drawFile)
    /\ drawOut' = Ok(drawIds)
    /\ drawPc' = "done"
    /\ UNCHANGED <<drawIn, drawBefore, drawPrev, drawLast, drawQueue, drawIds, drawFresh>>
    /\ UNCHANGED <<layoutVars, lexVars, dslVars, sizingVars, callVars, previewVars>>

NextDraw == DrawParse \/ DrawAddShape \/ DrawReindexFrames \/ DrawExpandFrames

SpecDraw == InitDraw /\ [][NextDraw]_vars

DrawFailed == drawPc = "done" /\ IsError(drawOut)

\* C3: a batch that fails leaves the document file as it was before the call:
\* no shape and no binding of the batch is in it.
DrawBatchAtomic == DrawFailed => drawFile = drawBefore

\* What does hold: a batch that fails in parseDsl leaves the file untouched.
DrawParseFailureWritesNothing ==
    (DrawFailed /\ drawLast = Idle) => drawFile = drawBefore

DrawPartialWitness ==
    /\ DrawFailed
    /\ drawIn = <<"rect 0,0 \"A\" id=a", "arrow \"A\" -> \"Missing\"">>
    /\ drawBefore = EmptyFile
    /\ Len(drawFile.shapes) = 1
    /\ drawFile.shapes[1].id = "shape:a"

\* The text a shape is found by, as the records hold it.
LabelText(shape) ==
    IF shape.type = "frame" THEN shape.props.name ELSE JoinLines(shape.props.richText)

IsCoordinate(target) == IncludesChar(target, ",")

ShapesNamed(target, file) ==
    IF \E i \in 1..Len(file.shapes) : file.shapes[i].id = target
    THEN {i \in 1..Len(file.shapes) : file.shapes[i].id = target}
    ELSE {i \in 1..Len(file.shapes) : LabelText(file.shapes[i]) = target}

Unresolvable(target, file) == ~IsCoordinate(target) /\ ShapesNamed(target, file) = {}

LastWasArrow == drawLast # Idle /\ drawLast.shape = "arrow"

\* C5: adding an arrow whose from or to is no x,y coordinate, no id and no
\* label of a shape on the page fails with the resolution error that quotes
\* that target, and the file is left as it was: no arrow, no binding.
UnresolvedArrowFails ==
    LastWasArrow =>
        LET from == drawLast.options["from"]
            to == drawLast.options["to"]
            missing == IF Unresolvable(from, drawPrev) THEN from
                       ELSE IF Unresolvable(to, drawPrev) THEN to ELSE ""
        IN  missing # "" =>
                /\ drawOut = Err("Unable to resolve arrow target \"" \o missing
                                 \o "\" to a coordinate or shape")
                /\ drawFile = drawPrev

UnresolvedArrowWitness ==
    /\ LastWasArrow
    /\ drawLast.options["from"] = "A" /\ drawLast.options["to"] = "Missing"
    /\ ShapesNamed("A", drawPrev) # {}
    /\ Len(drawPrev.bindings) = 1
    /\ drawOut = Err("Unable to resolve arrow target \"Missing\" to a coordinate or shape")

\* The binding an end of the arrow must have, as a set (empty for a
\* coordinate).
ExpectedBinding(target, terminal, arrowId, file) ==
    IF IsCoordinate(target) THEN {}
    ELSE {[fromId |-> arrowId, toId |-> file.shapes[MinOf(ShapesNamed(target, file))].id,
           terminal |-> terminal]}

BindingFacts(bindings) ==
    {[fromId |-> bindings[i].fromId, toId |-> bindings[i].toId,
      terminal |-> bindings[i].terminal] : i \in 1..Len(bindings)}

\* C6: an arrow that is added gives the file one binding for each end that
\* resolved to a shape (terminal start for from, end for to; fromId the
\* arrow's id, toId the shape's id) and none for an end given as a
\* coordinate; the bindings that were there stay.
ArrowBindingsPerEndpoint ==
    (/\ LastWasArrow
     /\ ~Unresolvable(drawLast.options["from"], drawPrev)
     /\ ~Unresolvable(drawLast.options["to"], drawPrev)) =>
        LET arrowId == drawIds[Len(drawIds)]
            expected == ExpectedBinding(drawLast.options["from"], "start", arrowId, drawPrev)
                        \cup ExpectedBinding(drawLast.options["to"], "end", arrowId, drawPrev)
            old == Len(drawPrev.bindings)
            new == SubSeq(drawFile.bindings, old + 1, Len(drawFile.bindings))
        IN  /\ ~IsError(drawOut)
            /\ \E i \in 1..Len(drawFile.shapes) :
                   drawFile.shapes[i].id = arrowId /\ drawFile.shapes[i].type = "arrow"
            /\ SubSeq(drawFile.bindings, 1, old) = drawPrev.bindings
            /\ Len(new) = Cardinality(expected)
            /\ BindingFacts(new) = expected
            /\ \A i \in 1..Len(new) : \A j \in 1..Len(drawFile.bindings) :
                   drawFile.bindings[j].id = new[i].id => j = old + i

ArrowTwoBindingsWitness ==
    /\ LastWasArrow
    /\ drawLast.options["from"] = "A" /\ drawLast.options["to"] = "B"
    /\ Len(drawFile.bindings) = Len(drawPrev.bindings) + 2
    /\ drawFile.bindings[Len(drawFile.bindings)].terminal = "end"
    /\ drawFile.bindings[Len(drawFile.bindings)].toId = "shape:g0"

ArrowMixedWitness ==
    /\ LastWasArrow
    /\ drawLast.options["from"] = "shape:a" /\ drawLast.options["to"] = "400,60"
    /\ Len(drawFile.bindings) = Len(drawPrev.bindings) + 1

ArrowCoordinatesWitness ==
    /\ LastWasArrow
    /\ drawLast.options["from"] = "0,0"
    /\ drawPc = "done" /\ IsOk(drawOut)
    /\ drawFile.bindings = << >>

-----------------------------------------------------------------------------
(* A shape of a layout block, as laid out and as drawn                      *)

\* The nested lines whose dimensions are compared: a kind, a WxH token or
\* none, a quoted content or none, a size tier or none, one more option or
\* none.
SizingSlots ==
    [kind : {"rect", "ellipse", "text", "note", "frame"},
     dimension : {"", "100x30"},
     content : {"", "Top", "A label of 20 chars."},
     tier : {"", "size=s", "size=l"},
     extra : {"", "font=mono", "dimensions=50x60", "dimensions=400x200"}]

RenderSizingLine(slots) ==
    JoinSpace(NonEmpty(<<slots.kind, slots.dimension,
                         IF slots.content = "" THEN "" ELSE "\"" \o slots.content \o "\"",
                         slots.tier, slots.extra>>))

\* The line as the only line of a stack block.
SizingBlock(line) == <<"stack vertical 0,0 gap=10 [", line, "]">>

InitSizing ==
    /\ sizingIn \in SizingSlots
    /\ sizingOut = Pending
    /\ LayoutIdle /\ LexIdle /\ DslIdle /\ DrawIdle /\ CallIdle
    /\ PreviewIdle

\* The width and height the block's layout is computed from.
SizingLayout(nested) ==
    IF IsError(nested) THEN nested ELSE resolveInstructionDimensions(nested.value)

SizingMeasured(added) ==
    IF IsError(added) THEN added ELSE Ok(getShapeBounds(added.value.file.shapes[1]))

\* The bounds of the shape drawFromDsl puts into a new document for the block.
SizingDrawn(parsed) ==
    IF IsError(parsed) THEN parsed
    ELSE SizingMeasured(addShapeToFile(EmptyFile, parsed.value[1].shape,
                                       ContentOf(parsed.value[1]),
                                       parsed.value[1].options, 1))

CallSizing ==
    /\ sizingOut = Pending
    /\ sizingOut' =
           [layout |-> SizingLayout(parseLineInstruction(RenderSizingLine(sizingIn),
                                                         "line 2", FALSE)),
            drawn |-> SizingDrawn(parseDsl(SizingBlock(RenderSizingLine(sizingIn))))]
    /\ UNCHANGED <<sizingIn, layoutVars, lexVars, dslVars, drawVars, callVars, previewVars>>

NextSizing == CallSizing

SpecSizing == InitSizing /\ [][NextSizing]_vars

SizingDone == sizingOut # Pending /\ sizingOut # Idle

\* C4: the width and height a block's layout uses for a nested shape are the
\* width and height of the shape that is drawn for it, as getShapeBounds
\* reports them.
LayoutDimensionsMatchDrawn ==
    (SizingDone /\ IsOk(sizingOut.layout) /\ IsOk(sizingOut.drawn)) =>
        /\ sizingOut.layout.value.w = sizingOut.drawn.value.w
        /\ sizingOut.layout.value.h = sizingOut.drawn.value.h

\* The repository's own example line, rect 100x30 "Top": laid out as 100x30,
\* drawn 64 high.
LayoutDimensionsDivergeWitness ==
    /\ SizingDone
    /\ RenderSizingLine(sizingIn) = "rect 100x30 \"Top\""
    /\ sizingOut.layout = Ok([h |-> 30, w |-> 100])
    /\ sizingOut.drawn = Ok([h |-> 64, w |-> 100, x |-> 0, y |-> 0])

-----------------------------------------------------------------------------
(* Comment stripping against tokenizing                                     *)

\* The characters the lines are written from: a letter, a space, a quote, a
\* backslash, a `#`.
CommentAlphabet == {"a", " ", "\"", "\\", "#"}

MaxLineLen == 5

RECURSIVE LinesOfLength(_)
LinesOfLength(n) ==
    IF n = 0 THEN {""}
    ELSE {line \o character : line \in LinesOfLength(n - 1), character \in CommentAlphabet}

CommentLines == UNION {LinesOfLength(n) : n \in 0..MaxLineLen}

InitStrip ==
    /\ callArgs \in [fn : {"stripInlineComment"}, line : CommentLines]
    /\ callOut = Pending
    /\ LayoutIdle /\ LexIdle /\ DslIdle /\ DrawIdle /\ SizingIdle
    /\ PreviewIdle

CallStripInlineComment ==
    /\ callOut = Pending
    /\ callArgs.fn = "stripInlineComment"
    /\ callOut' = Ok(stripInlineComment(callArgs.line))
    /\ UNCHANGED <<callArgs, layoutVars, lexVars, dslVars, drawVars, sizingVars,
                 previewVars>>

NextStrip == CallStripInlineComment

SpecStrip == InitStrip /\ [][NextStrip]_vars

StripDone == callOut # Pending /\ callOut # Idle

\* Whether tokenize, on the line, is inside a quoted region when it comes to
\* the character at index k.
TokenizerInQuotesAt(line, k) == TokenizeScan(line, 1, k - 1, TokenizeStart).inQuotes

\* The indices of the `#` characters tokenize takes to lie outside every
\* quoted region.
HashesOutsideQuotes(line) ==
    {k \in 1..Len(line) : CharAt(line, k) = "#" /\ ~TokenizerInQuotesAt(line, k)}

BackslashOutsideQuotes(line) ==
    \E k \in 1..Len(line) : CharAt(line, k) = "\\" /\ ~TokenizerInQuotesAt(line, k)

\* C11: stripInlineComment cuts the line at a `#` exactly when tokenize takes
\* that `#` to lie outside every quoted region: the line is cut at the first
\* such `#`, and is kept whole when there is none.
StripAgreesWithTokenizer ==
    StripDone =>
        callOut.value =
            IF HashesOutsideQuotes(callArgs.line) = {} THEN callArgs.line
            ELSE SubSeq(callArgs.line, 1, MinOf(HashesOutsideQuotes(callArgs.line)) - 1)

\* What does hold: the two agree on every line that has no backslash outside
\* a quoted region.
StripAgreesWithoutOuterBackslash ==
    (StripDone /\ ~BackslashOutsideQuotes(callArgs.line)) =>
        callOut.value =
            IF HashesOutsideQuotes(callArgs.line) = {} THEN callArgs.line
            ELSE SubSeq(callArgs.line, 1, MinOf(HashesOutsideQuotes(callArgs.line)) - 1)

\* The line \"#a" : tokenize opens a quoted region at the quote and reads the
\* `#` inside it; stripInlineComment takes the quote for an escaped one and
\* cuts at the `#`.
StripDisagreesWitness ==
    /\ StripDone
    /\ callArgs.line = "\\\"#a\""
    /\ TokenizerInQuotesAt(callArgs.line, 3)
    /\ callOut.value = "\\\""

-----------------------------------------------------------------------------
(* Shape lines, slot by slot                                                *)

\* s has sub as a substring.
Contains(s, sub) ==
    \E i \in 1..(Len(s) - Len(sub) + 1) : SubSeq(s, i, i + Len(sub) - 1) = sub

IsShapeTokenSource == DslDone /\ dslIn.form = "shapeTokens"

\* The text of a token as written in the line.
WrittenTokenText(token) == IF token = "\"Header\"" THEN "Header" ELSE token

\* The slots of the line, read off the tokens after the kind as the rule
\* states them: 1 where the slot is taken, 0 where it is not.
PositionSlotTaken(tokens) == IF Len(tokens) >= 1 /\ tokens[1] = "0,0" THEN 1 ELSE 0

SizeSlotTaken(tokens) ==
    IF /\ Len(tokens) >= PositionSlotTaken(tokens) + 1
       /\ tokens[PositionSlotTaken(tokens) + 1] = "800x60"
    THEN 1 ELSE 0

ContentSlotIndex(tokens) == PositionSlotTaken(tokens) + SizeSlotTaken(tokens) + 1

ContentSlotTaken(tokens) ==
    IF /\ Len(tokens) >= ContentSlotIndex(tokens)
       /\ tokens[ContentSlotIndex(tokens)] \notin {"fill=semi", "color=blue", "bogus=1", "color="}
    THEN 1 ELSE 0

OptionSlots(tokens) ==
    SubSeq(tokens, ContentSlotIndex(tokens) + ContentSlotTaken(tokens), Len(tokens))

\* The options a line that fits must give, for a kind that keeps its text as
\* the label option (labelled) or as the content.
ExpectedSlotOptions(tokens, labelled) ==
    LET rest == {OptionSlots(tokens)[i] : i \in 1..Len(OptionSlots(tokens))}
        keys == (IF PositionSlotTaken(tokens) = 1 THEN {"pos"} ELSE {})
                \cup (IF SizeSlotTaken(tokens) = 1 THEN {"size"} ELSE {})
                \cup (IF ContentSlotTaken(tokens) = 1 /\ labelled THEN {"label"} ELSE {})
                \cup (IF "fill=semi" \in rest THEN {"fill"} ELSE {})
                \cup (IF "color=blue" \in rest THEN {"color"} ELSE {})
    IN  [k \in keys |->
            IF k = "pos" THEN "0,0"
            ELSE IF k = "size" THEN "800x60"
            ELSE IF k = "label" THEN WrittenTokenText(tokens[ContentSlotIndex(tokens)])
            ELSE IF k = "fill" THEN "semi"
            ELSE "blue"]

ShapeLineOptionsWitness ==
    /\ IsShapeTokenSource
    /\ dslIn.kind = "text"
    /\ dslIn.tokens = <<"\"Header\"", "fill=semi", "color=blue">>
    /\ IsOk(dslOut)
    /\ dslOut.value[1].content = "Header"
    /\ dslOut.value[1].options = [k \in {"fill", "color"} |-> IF k = "fill" THEN "semi" ELSE "blue"]

ShapeLineUnknownKeyWitness ==
    /\ IsShapeTokenSource
    /\ dslIn.kind = "rect"
    /\ dslIn.tokens = <<"0,0", "bogus=1">>
    /\ dslOut = Err("Unsupported option \"bogus\" in line 2")

ShapeLineStrayTokenWitness ==
    /\ IsShapeTokenSource
    /\ dslIn.tokens = <<"\"Header\"", "stray">>
    /\ dslIn.kind = "note"
    /\ dslOut = Err("Unexpected token in line 2: \"stray\"")

-----------------------------------------------------------------------------
(* Arrow lines                                                              *)

IsArrowTokenSource == DslDone /\ dslIn.form = "arrowTokens"

\* The values of the tokens as written in the line.
WrittenArrowValues(tokens) ==
    [i \in 1..Len(tokens) |-> IF tokens[i] = "\" A\"" THEN " A" ELSE tokens[i]]

\* The number of the first token that is the marker, and of the first token
\* after it that has an `=`; one past the end where there is none.
MarkerAt(values) ==
    MinOf({i \in 1..Len(values) : values[i] = "->"} \cup {Len(values) + 1})

FirstOptionAt(values) ==
    MinOf({i \in (MarkerAt(values) + 1)..Len(values) : IncludesChar(values[i], "=")}
          \cup {Len(values) + 1})

FromTokens(values) == SubSeq(values, 1, MarkerAt(values) - 1)
ToTokens(values) == SubSeq(values, MarkerAt(values) + 1, FirstOptionAt(values) - 1)

\* What the rule asks of an arrow line.
ArrowLineWellFormed(values) ==
    /\ MarkerAt(values) <= Len(values)
    /\ JoinSpace(FromTokens(values)) # ""
    /\ JoinSpace(ToTokens(values)) # ""
    /\ \A i \in FirstOptionAt(values)..Len(values) : IncludesChar(values[i], "=")

ArrowEndpointsAsWritten(values) ==
    /\ IsOk(dslOut)
    /\ Len(dslOut.value) = 1
    /\ dslOut.value[1].shape = "arrow"
    /\ dslOut.value[1].options["from"] = JoinSpace(FromTokens(values))
    /\ dslOut.value[1].options["to"] = JoinSpace(ToTokens(values))

\* C13: an accepted arrow line has from = the tokens between the keyword
\* and the marker joined with single spaces, to = the tokens after the marker
\* up to the first key=value-shaped token joined the same way, both non-empty,
\* and only key=value tokens from there on; a line that violates one of these
\* is rejected.
ArrowEndpointsFromTokens ==
    IsArrowTokenSource =>
        LET values == WrittenArrowValues(dslIn.tokens)
        IN  /\ IsOk(dslOut) => ArrowLineWellFormed(values) /\ ArrowEndpointsAsWritten(values)
            /\ ~ArrowLineWellFormed(values) => IsError(dslOut)

\* The same for the lines that set neither end point by an option and write
\* no token that starts or ends with a space.
ArrowPlainLine ==
    \A i \in 1..Len(dslIn.tokens) : dslIn.tokens[i] \notin {"from=C", "\" A\""}

ArrowEndpointsFromPlainTokens ==
    (IsArrowTokenSource /\ ArrowPlainLine) =>
        LET values == WrittenArrowValues(dslIn.tokens)
        IN  /\ IsOk(dslOut) => ArrowLineWellFormed(values) /\ ArrowEndpointsAsWritten(values)
            /\ ~ArrowLineWellFormed(values) => IsError(dslOut)

\* arrow A -> Node from=C is accepted with from = C.
ArrowFromOverriddenWitness ==
    /\ IsArrowTokenSource
    /\ dslIn.tokens = <<"A", "->", "Node", "from=C">>
    /\ IsOk(dslOut)
    /\ dslOut.value[1].options["from"] = "C"
    /\ dslOut.value[1].options["to"] = "Node"

\* arrow " A" -> Node is accepted with from = A, the space trimmed away.
ArrowFromTrimmedWitness ==
    /\ IsArrowTokenSource
    /\ dslIn.tokens = <<"\" A\"", "->", "Node">>
    /\ IsOk(dslOut)
    /\ dslOut.value[1].options["from"] = "A"

ArrowMultiWordWitness ==
    /\ IsArrowTokenSource
    /\ dslIn.tokens = <<"A", "Node", "->", "Node">>
    /\ IsOk(dslOut)
    /\ dslOut.value[1].options["from"] = "A Node"

ArrowRejectedWitness ==
    /\ IsArrowTokenSource
    /\ dslIn.tokens = <<"A", "->", "color=red">>
    /\ dslOut = Err("Invalid arrow endpoints in line 2")

-----------------------------------------------------------------------------
(* Style values at the DSL layer                                            *)

IsStyleSource == DslDone /\ dslIn.form = "styleTokens"

\* The closed enumeration of each style option.
StyleEnumeration(key) ==
    IF key = "color" THEN DefaultColorStyleValues
    ELSE IF key = "fill" THEN DefaultFillStyleValues
    ELSE IF key = "dash" THEN DefaultDashStyleValues
    ELSE IF key = "size" THEN DefaultSizeStyleValues
    ELSE DefaultFontStyleValues

\* C14: parsing a line whose color, fill, dash, size or font option has a
\* value outside the option's enumeration fails: no instruction list is
\* returned.
StyleValuesCheckedByParser ==
    (IsStyleSource /\ dslIn.value \notin StyleEnumeration(dslIn.key)) => IsError(dslOut)

\* What the parser does with a style option: the value is kept as written,
\* whatever it is.
StyleValuesKeptAsWritten ==
    IsStyleSource =>
        /\ IsOk(dslOut)
        /\ Len(dslOut.value) = 1
        /\ dslOut.value[1].options[dslIn.key] = dslIn.value

\* rect 0,0 color=pink parses to an instruction with color pink.
StyleValueOutsideAcceptedWitness ==
    /\ IsStyleSource
    /\ dslIn.kind = "rect" /\ dslIn.key = "color" /\ dslIn.value = "pink"
    /\ parseColor(dslIn.value) = Err("Invalid color: \"pink\"")
    /\ dslOut = Ok(<<[options |-> [k \in {"pos", "color"} |-> IF k = "pos" THEN "0,0" ELSE "pink"],
                     shape |-> "rect"]>>)

-----------------------------------------------------------------------------
(* Layout calls with invalid input                                          *)

LayoutDone == layoutOut # Pending /\ layoutOut # Idle

\* What makes a number of a layout call invalid, said without the validators.
NotFinite(v) == v \in NonFiniteNumbers
BadDimension(v) == NotFinite(v) \/ v <= 0
BadGap(v) == NotFinite(v) \/ v < 0
BadOrigin(origin) == NotFinite(origin.x) \/ NotFinite(origin.y)
BadCols(v) == NotFinite(v) \/ v \in Fractions \/ v <= 0

SomeBadDimension(shapes) ==
    \E i \in 1..Len(shapes) : BadDimension(shapes[i].w) \/ BadDimension(shapes[i].h)

\* C15: stackShapes and gridShapes fail, returning no positions, on a width
\* or height that is not finite or not positive, a gap that is negative or not
\* finite, an origin coordinate that is not finite and (grid) a cols that is
\* not a positive integer; gridShapes with a valid origin, gap and cols and
\* no shapes returns the empty list.
LayoutRejectsInvalidInput ==
    LayoutDone =>
        LET a == layoutArgs
            grid == a.fn = "gridShapes"
        IN  /\ (BadOrigin(a.origin) \/ BadGap(a.gap) \/ SomeBadDimension(a.shapes)
                  \/ (grid /\ BadCols(a.cols)))
                 => IsError(layoutOut)
            /\ (grid /\ ~BadOrigin(a.origin) /\ ~BadGap(a.gap) /\ ~BadCols(a.cols)
                  /\ Len(a.shapes) = 0)
                 => layoutOut = Ok(<< >>)

\* A grid call whose only fault is the height of its second shape, Infinity.
LayoutBadSecondShapeWitness ==
    /\ LayoutDone
    /\ layoutArgs.fn = "gridShapes"
    /\ ~BadOrigin(layoutArgs.origin) /\ ~BadGap(layoutArgs.gap) /\ ~BadCols(layoutArgs.cols)
    /\ Len(layoutArgs.shapes) = 2
    /\ ~BadDimension(layoutArgs.shapes[1].w) /\ ~BadDimension(layoutArgs.shapes[1].h)
    /\ NotFinite(layoutArgs.shapes[2].h)
    /\ layoutOut = Err("Invalid height")

LayoutBadGapWitness ==
    /\ LayoutDone
    /\ layoutArgs.fn = "stackShapes"
    /\ ~BadOrigin(layoutArgs.origin) /\ ~SomeBadDimension(layoutArgs.shapes)
    /\ Len(layoutArgs.shapes) = 2
    /\ NotFinite(layoutArgs.gap)
    /\ layoutOut = Err("Invalid gap")

LayoutFractionColsWitness ==
    /\ LayoutDone
    /\ layoutArgs.fn = "gridShapes"
    /\ layoutArgs.cols \in Fractions
    /\ ~BadOrigin(layoutArgs.origin) /\ ~BadGap(layoutArgs.gap)
    /\ layoutOut = Err("Invalid cols")

LayoutEmptyGridWitness ==
    /\ LayoutDone
    /\ layoutArgs.fn = "gridShapes"
    /\ Len(layoutArgs.shapes) = 0
    /\ layoutOut = Ok(<< >>)

-----------------------------------------------------------------------------
(* Bounds of an arrow: store/shapes.ts                                      *)

\* An arrow as the program stores it: the origin x, y and the two end points
\* relative to it.
ArrowCoordinates == {-5, 0, 7}
ArrowOrigins == {0, 10}

BoundsCalls ==
    [fn : {"getShapeBounds"},
     x : ArrowOrigins, y : ArrowOrigins,
     start : [x : ArrowCoordinates, y : ArrowCoordinates],
     end : [x : ArrowCoordinates, y : ArrowCoordinates]]

\* The end points in page coordinates: startX = x + props.start.x, and so on.
StoredArrow(a) ==
    [id |-> "shape:arrow", index |-> 1, type |-> "arrow",
     props |-> [fromPoint |-> [x |-> a.x + a.start.x, y |-> a.y + a.start.y],
                toPoint |-> [x |-> a.x + a.end.x, y |-> a.y + a.end.y]]]

InitBounds ==
    /\ callArgs \in BoundsCalls
    /\ callOut = Pending
    /\ LayoutIdle /\ LexIdle /\ DslIdle /\ DrawIdle /\ SizingIdle
    /\ PreviewIdle

CallGetShapeBounds ==
    /\ callOut = Pending
    /\ callArgs.fn = "getShapeBounds"
    /\ callOut' = Ok(getShapeBounds(StoredArrow(callArgs)))
    /\ UNCHANGED <<callArgs, layoutVars, lexVars, dslVars, drawVars, sizingVars,
                 previewVars>>

NextBounds == CallGetShapeBounds

SpecBounds == InitBounds /\ [][NextBounds]_vars

BoundsDone == callOut # Pending /\ callOut # Idle

\* The box of an arrow spans its two end points exactly.
ConnectorBoundsSpanEndpoints ==
    BoundsDone =>
        LET a == callArgs
            b == callOut.value
        IN  /\ b.x = Min(a.x + a.start.x, a.x + a.end.x)
            /\ b.y = Min(a.y + a.start.y, a.y + a.end.y)
            /\ b.x + b.w = Max(a.x + a.start.x, a.x + a.end.x)
            /\ b.y + b.h = Max(a.y + a.start.y, a.y + a.end.y)

\* C16: getShapeBounds of a connector is the box that spans its two end
\* points (origin + stored offset), with a width and a height of at least 1:
\* a horizontal, vertical or zero-length connector has no zero-size box.
ConnectorBoundsAtLeastOne ==
    BoundsDone =>
        LET a == callArgs
            b == callOut.value
        IN  /\ b.x = Min(a.x + a.start.x, a.x + a.end.x)
            /\ b.y = Min(a.y + a.start.y, a.y + a.end.y)
            /\ b.w >= 1 /\ b.h >= 1
            /\ b.w >= Abs(a.end.x - a.start.x)
            /\ b.h >= Abs(a.end.y - a.start.y)

\* A horizontal arrow from (10,7) to (17,7): its box has height 0, while
\* getShapeSize gives the same arrow a height of 1.
ConnectorFlatBoundsWitness ==
    /\ BoundsDone
    /\ callArgs.x = 10 /\ callArgs.y = 0
    /\ callArgs.start = [x |-> 0, y |-> 7] /\ callArgs.end = [x |-> 7, y |-> 7]
    /\ callOut.value = [h |-> 0, w |-> 7, x |-> 10, y |-> 7]
    /\ getShapeSize(StoredArrow(callArgs)) = [h |-> 1, w |-> 7]

-----------------------------------------------------------------------------
(* Border points: store/shapes.ts                                           *)

Sign(n) == IF n < 0 THEN -1 ELSE IF n > 0 THEN 1 ELSE 0

\* tY < tX for a rectangle of width w and height h and a direction (dx2, dy2)
\* that is not zero, where tX = halfWidth/|dx| and tY = halfHeight/|dy| and a
\* zero component makes its t infinite: the ray leaves by the top or the
\* bottom edge.
ExitsHorizontalEdge(w, h, dx2, dy2) ==
    IF dy2 = 0 THEN FALSE
    ELSE IF dx2 = 0 THEN TRUE
    ELSE h * Abs(dx2) < w * Abs(dy2)

\* A border point with the padding left out.
borderPointUnpadded(shape, towardPoint, padding) ==
    LET bounds == getShapeBounds(shape)
        center == CenterOfBounds(bounds)
        dx2 == 2 * towardPoint.x - center.x2
        dy2 == 2 * towardPoint.y - center.y2
    IN  IF dx2 = 0 /\ dy2 = 0 THEN center
        ELSE IF dy2 = 0 THEN [x2 |-> center.x2 + Sign(dx2) * bounds.w, y2 |-> center.y2]
        ELSE IF dx2 = 0 THEN [x2 |-> center.x2, y2 |-> center.y2 + Sign(dy2) * bounds.h]
        ELSE [border |-> bounds, toward |-> towardPoint, padding |-> padding]

\* The border point of a rectangle, doubled like the centre (x2 is twice x).
\* The point is center + direction * t, moved outward by padding along the
\* unit direction; it is worked out where it stays on the half-pixel grid
\* (the target at the centre, on the line through it, or a diagonal without
\* padding whose crossing is on the grid) and kept as a term elsewhere.
borderPoint(shape, towardPoint, padding) ==
    LET bounds == getShapeBounds(shape)
        center == CenterOfBounds(bounds)
        dx2 == 2 * towardPoint.x - center.x2
        dy2 == 2 * towardPoint.y - center.y2
        horizontalEdge == ExitsHorizontalEdge(bounds.w, bounds.h, dx2, dy2)
    IN  IF dx2 = 0 /\ dy2 = 0 THEN center
        ELSE IF dy2 = 0
        THEN [x2 |-> center.x2 + Sign(dx2) * (bounds.w + 2 * padding), y2 |-> center.y2]
        ELSE IF dx2 = 0
        THEN [x2 |-> center.x2, y2 |-> center.y2 + Sign(dy2) * (bounds.h + 2 * padding)]
        ELSE IF padding = 0 /\ horizontalEdge /\ (dx2 * bounds.h) % Abs(dy2) = 0
        THEN [x2 |-> center.x2 + (dx2 * bounds.h) \div Abs(dy2),
              y2 |-> center.y2 + Sign(dy2) * bounds.h]
        ELSE IF padding = 0 /\ ~horizontalEdge /\ (dy2 * bounds.w) % Abs(dx2) = 0
        THEN [x2 |-> center.x2 + Sign(dx2) * bounds.w,
              y2 |-> center.y2 + (dy2 * bounds.w) \div Abs(dx2)]
        ELSE [border |-> bounds, toward |-> towardPoint, padding |-> padding]

\* The rectangles and targets of the border point tests, and some more.
BorderRectangles == [x : {0, 100}, y : {0, 100}, w : {200, 101}, h : {100}]
BorderTargets == [x : {-500, 100, 200, 500}, y : {-500, 50, 150, 500}]
BorderPaddings == {0, 8}

BorderCalls ==
    [fn : {"borderPoint"}, rect : BorderRectangles, toward : BorderTargets,
     padding : BorderPaddings]

\* makeRect of the tests: the fields of a rectangle that the bounds read.
RectangleShape(r) ==
    [id |-> "shape:rect", type |-> "geo", x |-> r.x, y |-> r.y,
     props |-> [geo |-> "rectangle", h |-> r.h, w |-> r.w]]

InitBorder ==
    /\ callArgs \in BorderCalls
    /\ callOut = Pending
    /\ LayoutIdle /\ LexIdle /\ DslIdle /\ DrawIdle /\ SizingIdle
    /\ PreviewIdle

CallBorderPoint ==
    /\ callOut = Pending
    /\ callArgs.fn = "borderPoint"
    /\ callOut' = Ok(borderPoint(RectangleShape(callArgs.rect), callArgs.toward,
                                 callArgs.padding))
    /\ UNCHANGED <<callArgs, layoutVars, lexVars, dslVars, drawVars, sizingVars,
                 previewVars>>

NextBorder == CallBorderPoint

SpecBorder == InitBorder /\ [][NextBorder]_vars

BorderDone == callOut # Pending /\ callOut # Idle

\* C17: the border point of a rectangle is its centre, unpadded, when the
\* target is the centre; for a target on the horizontal or the vertical line
\* through the centre it is the midpoint of the edge that faces the target
\* (center.x +/- halfWidth with y = center.y, center.y +/- halfHeight with
\* x = center.x), moved outward along that axis by the padding.
BorderPointOnAxes ==
    BorderDone =>
        LET r == callArgs.rect
            t == callArgs.toward
            p == callArgs.padding
            cx2 == 2 * r.x + r.w
            cy2 == 2 * r.y + r.h
        IN  /\ (2 * t.x = cx2 /\ 2 * t.y = cy2)
                 => callOut.value = [x2 |-> cx2, y2 |-> cy2]
            /\ (2 * t.y = cy2 /\ 2 * t.x > cx2)
                 => callOut.value = [x2 |-> cx2 + r.w + 2 * p, y2 |-> cy2]
            /\ (2 * t.y = cy2 /\ 2 * t.x < cx2)
                 => callOut.value = [x2 |-> cx2 - r.w - 2 * p, y2 |-> cy2]
            /\ (2 * t.x = cx2 /\ 2 * t.y > cy2)
                 => callOut.value = [x2 |-> cx2, y2 |-> cy2 + r.h + 2 * p]
            /\ (2 * t.x = cx2 /\ 2 * t.y < cy2)
                 => callOut.value = [x2 |-> cx2, y2 |-> cy2 - r.h - 2 * p]

\* The rectangle 0,0 200x100, the target (500, 50), padding 8: (208, 50).
BorderRightEdgePaddedWitness ==
    /\ BorderDone
    /\ callArgs.rect = [x |-> 0, y |-> 0, w |-> 200, h |-> 100]
    /\ callArgs.toward = [x |-> 500, y |-> 50]
    /\ callArgs.padding = 8
    /\ callOut.value = [x2 |-> 416, y2 |-> 100]

\* The same rectangle, the target at its centre (100, 50), padding 8.
BorderCenterWitness ==
    /\ BorderDone
    /\ callArgs.rect = [x |-> 0, y |-> 0, w |-> 200, h |-> 100]
    /\ callArgs.toward = [x |-> 100, y |-> 50]
    /\ callArgs.padding = 8
    /\ callOut.value = [x2 |-> 200, y2 |-> 100]

\* The rectangle 100,100 200x100, the target (200, -500): the top edge.
BorderTopEdgeWitness ==
    /\ BorderDone
    /\ callArgs.rect = [x |-> 100, y |-> 100, w |-> 200, h |-> 100]
    /\ callArgs.toward = [x |-> 200, y |-> -500]
    /\ callArgs.padding = 0
    /\ callOut.value = [x2 |-> 400, y2 |-> 200]

-----------------------------------------------------------------------------
(* The export viewport: export/svg.ts                                       *)

DEFAULT_PADDING == 24

\* An export viewport whose size leaves the padding out.
getExportBoundsUnpadded(shapes, padding) ==
    IF Len(shapes) = 0
    THEN [height |-> 120, minX |-> -padding, minY |-> -padding, width |-> 200]
    ELSE LET bounds == [i \in 1..Len(shapes) |-> getShapeBounds(shapes[i])]
             minX == MinOf({bounds[i].x : i \in 1..Len(shapes)})
             minY == MinOf({bounds[i].y : i \in 1..Len(shapes)})
             maxX == MaxOf({bounds[i].x + bounds[i].w : i \in 1..Len(shapes)})
             maxY == MaxOf({bounds[i].y + bounds[i].h : i \in 1..Len(shapes)})
         IN  [height |-> Max(120, maxY - minY),
              minX |-> minX - padding,
              minY |-> minY - padding,
              width |-> Max(200, maxX - minX)]

\* getExportBounds.  The coordinates are integers, so Math.ceil changes
\* nothing and the four extremes of a non-empty list are finite: the branch
\* for extremes that are not finite is never taken.
getExportBounds(shapes, padding) ==
    IF Len(shapes) = 0
    THEN [height |-> 120, minX |-> -padding, minY |-> -padding, width |-> 200]
    ELSE LET bounds == [i \in 1..Len(shapes) |-> getShapeBounds(shapes[i])]
             minX == MinOf({bounds[i].x : i \in 1..Len(shapes)})
             minY == MinOf({bounds[i].y : i \in 1..Len(shapes)})
             maxX == MaxOf({bounds[i].x + bounds[i].w : i \in 1..Len(shapes)})
             maxY == MaxOf({bounds[i].y + bounds[i].h : i \in 1..Len(shapes)})
         IN  [height |-> Max(120, maxY - minY + padding * 2),
              minX |-> minX - padding,
              minY |-> minY - padding,
              width |-> Max(200, maxX - minX + padding * 2)]

\* The shapes of an exported page: rectangles small and large, near and far,
\* and an arrow that lies flat.
MaxExportShapes == 2

ExportShapeSet ==
    {RectangleShape(r) : r \in [x : {-50, 0, 500}, y : {40}, w : {10, 300}, h : {10, 200}]}
    \cup {[id |-> "shape:arrow", type |-> "arrow", x |-> 0, y |-> 0,
           props |-> [fromPoint |-> [x |-> -300, y |-> 7], toPoint |-> [x |-> 7, y |-> 7]]]}

ExportCalls ==
    [fn : {"getExportBounds"},
     shapes : UNION {[1..n -> ExportShapeSet] : n \in 0..MaxExportShapes},
     padding : {0, DEFAULT_PADDING}]

InitExport ==
    /\ callArgs \in ExportCalls
    /\ callOut = Pending
    /\ LayoutIdle /\ LexIdle /\ DslIdle /\ DrawIdle /\ SizingIdle
    /\ PreviewIdle

CallGetExportBounds ==
    /\ callOut = Pending
    /\ callArgs.fn = "getExportBounds"
    /\ callOut' = Ok(getExportBounds(callArgs.shapes, callArgs.padding))
    /\ UNCHANGED <<callArgs, layoutVars, lexVars, dslVars, drawVars, sizingVars,
                 previewVars>>

NextExport == CallGetExportBounds

SpecExport == InitExport /\ [][NextExport]_vars

ExportDone == callOut # Pending /\ callOut # Idle

\* C18: the viewport of a non-empty shape list contains the bounds of every
\* shape grown by the padding on each side, and is at least 200 wide and 120
\* high; the viewport of an empty list is the default canvas of 200 by 120.
ExportViewportContainsShapes ==
    ExportDone =>
        LET v == callOut.value
            p == callArgs.padding
        IN  /\ v.width >= 200 /\ v.height >= 120
            /\ \A i \in 1..Len(callArgs.shapes) :
                 LET b == getShapeBounds(callArgs.shapes[i])
                 IN  /\ v.minX <= b.x - p
                     /\ v.minY <= b.y - p
                     /\ b.x + b.w + p <= v.minX + v.width
                     /\ b.y + b.h + p <= v.minY + v.height
            /\ Len(callArgs.shapes) = 0 => (v.width = 200 /\ v.height = 120)

\* Two rectangles far apart with the default padding: the viewport is wider
\* than the floor and reaches exactly from the one to the other.
ExportViewportWitness ==
    /\ ExportDone
    /\ callArgs.padding = DEFAULT_PADDING
    /\ callArgs.shapes = <<RectangleShape([x |-> 500, y |-> 40, w |-> 300, h |-> 200]),
                           RectangleShape([x |-> -50, y |-> 40, w |-> 10, h |-> 10])>>
    /\ callOut.value = [height |-> 248, minX |-> -74, minY |-> 16, width |-> 898]

ExportEmptyWitness ==
    /\ ExportDone
    /\ Len(callArgs.shapes) = 0
    /\ callArgs.padding = DEFAULT_PADDING
    /\ callOut.value = [height |-> 120, minX |-> -24, minY |-> -24, width |-> 200]

\* One small rectangle: the floor of 200 by 120 applies.
ExportFloorWitness ==
    /\ ExportDone
    /\ callArgs.shapes = <<RectangleShape([x |-> 0, y |-> 40, w |-> 10, h |-> 10])>>
    /\ callArgs.padding = 0
    /\ callOut.value = [height |-> 120, minX |-> 0, minY |-> 40, width |-> 200]

-----------------------------------------------------------------------------
(* Rendering a page: export/svg.ts                                          *)

COLOR_HEX_BY_STYLE ==
    [c \in {"black", "blue", "green", "grey", "light-blue", "light-green", "light-red",
            "light-violet", "orange", "red", "violet", "yellow"} |->
        CASE c = "black" -> "#1f1f1f" [] c = "blue" -> "#2b6cf5" [] c = "green" -> "#2f9e44"
          [] c = "grey" -> "#6b7280" [] c = "light-blue" -> "#7da8ff"
          [] c = "light-green" -> "#73d08b" [] c = "light-red" -> "#ff8a8a"
          [] c = "light-violet" -> "#c6a4ff" [] c = "orange" -> "#f08c00"
          [] c = "red" -> "#e03131" [] c = "violet" -> "#7048e8" [] OTHER -> "#f6c344"]

colorToHex(color) ==
    IF color \in DOMAIN COLOR_HEX_BY_STYLE THEN COLOR_HEX_BY_STYLE[color] ELSE color

getFillColor(color, fill) ==
    IF fill = "none" THEN "none"
    ELSE IF fill = "solid" THEN colorToHex(color)
    ELSE colorToHex(color) \o "33"

\* The element a geo shape is drawn as, attribute by attribute; the stroke
\* width, the dash array and the font are named by the style they are looked
\* up with.
renderGeoShape(shape) ==
    [element |-> IF shape.props.geo = "ellipse" THEN "ellipse" ELSE "rect",
     x |-> shape.x, y |-> shape.y, width |-> shape.props.w, height |-> shape.props.h,
     fill |-> getFillColor(shape.props.color, shape.props.fill),
     stroke |-> colorToHex(shape.props.color),
     strokeWidth |-> shape.props.size, dash |-> shape.props.dash,
     font |-> shape.props.font,
     label |-> Trim(richTextToPlainText(shape.props.richText))]

renderFrameShape(shape) ==
    [element |-> "rect",
     x |-> shape.x, y |-> shape.y, width |-> shape.props.w, height |-> shape.props.h,
     fill |-> "none", stroke |-> colorToHex(shape.props.color),
     title |-> Trim(shape.props.name)]

\* renderShape for the shapes of the pages below: geo shapes and frames.
renderShape(shape) ==
    IF shape.type = "frame" THEN renderFrameShape(shape) ELSE renderGeoShape(shape)

\* The shapes in the order the store lists them, left as they are.
sortShapesByIndexUnsorted(shapes) == shapes

\* sortShapesByIndex: Array.prototype.sort is stable, so a shape goes after
\* the shapes before it whose index is not greater.
RECURSIVE sortShapesByIndex(_)
sortShapesByIndex(shapes) ==
    IF Len(shapes) = 0 THEN << >>
    ELSE LET sorted == sortShapesByIndex(SubSeq(shapes, 1, Len(shapes) - 1))
             shape == shapes[Len(shapes)]
             k == Cardinality({i \in 1..Len(sorted) : sorted[i].index <= shape.index})
         IN  SubSeq(sorted, 1, k) \o <<shape>> \o SubSeq(sorted, k + 1, Len(sorted))

RenderedShapes(shapes) == [i \in 1..Len(shapes) |-> renderShape(shapes[i])]

\* renderStoreToSvg: the svg element's size and view box, the background
\* rectangle, and the shapes' elements in index order.
renderStoreToSvg(store, padding, background) ==
    [bounds |-> getExportBounds(sortShapesByIndex(store), padding),
     background |-> background,
     shapeSvg |-> RenderedShapes(sortShapesByIndex(store))]

\* The shapes of a page: each has its own index.
PageShapes ==
    {createFrameShape(NoOptions, 460, 260, "Frame", 1, [x |-> -20, y |-> -20], "shape:f"),
     createGeoShape(SetOption(NoOptions, "fill", "semi"), "rectangle", 220, 120, "A", 2,
                    [x |-> 0, y |-> 0], "shape:a"),
     createGeoShape(SetOption(NoOptions, "color", "red"), "ellipse", 120, 120, "", 3,
                    [x |-> 300, y |-> 40], "shape:b")}

\* The stores that hold the shapes of S, in every order of their records.
StoresOf(S) ==
    {store \in [1..Cardinality(S) -> S] : \A i, j \in 1..Cardinality(S) :
                                              i # j => store[i] # store[j]}

RenderCalls ==
    [fn : {"renderStoreToSvg"},
     store : UNION {StoresOf(S) : S \in SUBSET PageShapes},
     padding : {0, DEFAULT_PADDING},
     background : {"#ffffff", "black"}]

\* The texts parsed twice: the blocks, closed and alone in their text.
ParseTwiceCalls ==
    [fn : {"parseDsl"},
     source : {src \in BlockSources :
                  src.closing = "]" /\ src.before.text = "" /\ src.after.text = ""}]

InitRender ==
    /\ callArgs \in RenderCalls \cup ParseTwiceCalls
    /\ callOut = Pending
    /\ LayoutIdle /\ LexIdle /\ DslIdle /\ DrawIdle /\ SizingIdle
    /\ PreviewIdle

Once(v) == [tag |-> "once", first |-> v]

\* The first rendering of the page.
RenderFirst ==
    /\ callOut = Pending
    /\ callArgs.fn = "renderStoreToSvg"
    /\ callOut' = Once(renderStoreToSvg(callArgs.store, callArgs.padding,
                                        callArgs.background))
    /\ UNCHANGED <<callArgs, layoutVars, lexVars, dslVars, drawVars, sizingVars,
                 previewVars>>

\* The second rendering, of a store that holds the same shapes and lists them
\* in any order, with the same options.
RenderAgain ==
    /\ callOut.tag = "once"
    /\ callArgs.fn = "renderStoreToSvg"
    /\ \E store \in StoresOf({callArgs.store[i] : i \in 1..Len(callArgs.store)}) :
           callOut' = Ok([first |-> callOut.first,
                          second |-> renderStoreToSvg(store, callArgs.padding,
                                                      callArgs.background),
                          again |-> store])
    /\ UNCHANGED <<callArgs, layoutVars, lexVars, dslVars, drawVars, sizingVars,
                 previewVars>>

ParseFirst ==
    /\ callOut = Pending
    /\ callArgs.fn = "parseDsl"
    /\ callOut' = Once(parseDsl(SourceLines(callArgs.source)))
    /\ UNCHANGED <<callArgs, layoutVars, lexVars, dslVars, drawVars, sizingVars,
                 previewVars>>

ParseAgain ==
    /\ callOut.tag = "once"
    /\ callArgs.fn = "parseDsl"
    /\ callOut' = Ok([first |-> callOut.first,
                      second |-> parseDsl(SourceLines(callArgs.source)),
                      again |-> callArgs.source])
    /\ UNCHANGED <<callArgs, layoutVars, lexVars, dslVars, drawVars, sizingVars,
                 previewVars>>

NextRender == RenderFirst \/ RenderAgain \/ ParseFirst \/ ParseAgain

SpecRender == InitRender /\ [][NextRender]_vars

ParsedTwiceWitness ==
    /\ IsOk(callOut)
    /\ callArgs.fn = "parseDsl"
    /\ IsOk(callOut.value.first)
    /\ Len(callOut.value.first.value) = 2
    /\ callOut.value.first = callOut.value.second

-----------------------------------------------------------------------------
(* Frames after a batch                                                     *)

\* The record of the file that has the id.
ShapeWithId(file, id) ==
    file.shapes[CHOOSE i \in 1..Len(file.shapes) : file.shapes[i].id = id]

\* The shapes, other than frames, whose centre lies in the box of the frame
\* extended by 200 on every side (centres compared doubled).
CenteredNear(file, frame) ==
    {j \in 1..Len(file.shapes) :
        /\ file.shapes[j].type # "frame"
        /\ LET b == getShapeBounds(file.shapes[j])
           IN  /\ 2 * b.x + b.w >= 2 * (frame.x - 200)
               /\ 2 * b.x + b.w <= 2 * (frame.x + frame.props.w + 200)
               /\ 2 * b.y + b.h >= 2 * (frame.y - 200)
               /\ 2 * b.y + b.h <= 2 * (frame.y + frame.props.h + 200)}

\* The box of the frame holds the bounds grown by 20 on each side.
EnclosesPadded(frame, b) ==
    /\ frame.x <= b.x - 20
    /\ frame.y <= b.y - 20
    /\ b.x + b.w + 20 <= frame.x + frame.props.w
    /\ b.y + b.h + 20 <= frame.y + frame.props.h

FrameFitsContents(declared, after, file) ==
    /\ after.props.w >= declared.props.w /\ after.props.h >= declared.props.h
    /\ after.x <= declared.x /\ after.y <= declared.y
    /\ after.x + after.props.w >= declared.x + declared.props.w
    /\ after.y + after.props.h >= declared.y + declared.props.h
    /\ \A j \in CenteredNear(file, declared) :
           EnclosesPadded(after, getShapeBounds(file.shapes[j]))
    /\ CenteredNear(file, declared) = {} => after = declared

\* C20: after a batch every frame is at least as large as it was declared
\* and encloses, with 20 of padding on each side, every shape other than a
\* frame whose centre lay within the declared box extended by 200 on every
\* side; a frame with no such shape keeps its declared position and size.
FramesFitContentsAfterBatch ==
    [][drawPc = "expand" =>
          /\ Len(drawFile'.shapes) = Len(drawFile.shapes)
          /\ \A i \in 1..Len(drawFile.shapes) :
                IF drawFile.shapes[i].type = "frame"
                THEN FrameFitsContents(drawFile.shapes[i],
                                       ShapeWithId(drawFile', drawFile.shapes[i].id),
                                       drawFile)
                ELSE drawFile'.shapes[i] = drawFile.shapes[i]]_vars


\* rect A, a frame placed below it and a frame far from both: the first
\* frame has grown to hold A with its padding, the second is as declared.
FramesFitContentsWitness ==
    /\ drawPc = "done" /\ IsOk(drawOut)
    /\ drawBefore = EmptyFile
    /\ drawIn = <<"rect 0,0 \"A\" id=a", "frame \"F\"", "frame 500,500 200x100 \"I\"">>
    /\ getShapeBounds(drawPrev.shapes[2]).y > 0
    /\ getShapeBounds(drawFile.shapes[2]) = [h |-> 440, w |-> 480, x |-> -20, y |-> -20]
    /\ getShapeBounds(drawFile.shapes[3]) = [h |-> 100, w |-> 200, x |-> 500, y |-> 500]

-----------------------------------------------------------------------------
(* Labelled shapes are at least as large as their label                     *)

IsLabelledGeo ==
    SizingDone /\ sizingIn.kind \in {"rect", "ellipse"} /\ sizingIn.content # ""

\* What addShapeToFile is given for the line: the size tier ("" for none),
\* the font, and the explicit width and height if any.  A size= option takes
\* the place of the WxH token of the line, both being the size option.
GivenTier(slots) == IF slots.tier = "" THEN "" ELSE SubSeq(slots.tier, 6, Len(slots.tier))
GivenFont(slots) == IF slots.extra = "font=mono" THEN "mono" ELSE ""

BaseDimensions(slots) ==
    IF slots.tier = "" /\ slots.dimension = "100x30" THEN [h |-> 30, w |-> 100]
    ELSE IF slots.extra = "dimensions=50x60" THEN [h |-> 60, w |-> 50]
    ELSE IF slots.extra = "dimensions=400x200" THEN [h |-> 200, w |-> 400]
    ELSE IF slots.kind = "rect" THEN [h |-> 120, w |-> 220]
    ELSE [h |-> 120, w |-> 120]

LabelEstimate(slots) ==
    estimateLabelDimensions(slots.content, GivenTier(slots), GivenFont(slots))

\* C21: a rect or ellipse created with a label is max(base width, estimated
\* label width) wide and max(base height, estimated label height) high, the
\* base being the explicit WxH if given and the default of the kind if not:
\* explicit dimensions are kept when the label fits, and the shape is never
\* smaller than the estimate of its label.
LabelledShapeCoversLabel ==
    IsLabelledGeo =>
        /\ IsOk(sizingOut.drawn)
        /\ sizingOut.drawn.value.w = Max(BaseDimensions(sizingIn).w, LabelEstimate(sizingIn).w)
        /\ sizingOut.drawn.value.h = Max(BaseDimensions(sizingIn).h, LabelEstimate(sizingIn).h)
        /\ sizingOut.drawn.value.w >= LabelEstimate(sizingIn).w
        /\ sizingOut.drawn.value.h >= LabelEstimate(sizingIn).h

\* rect 100x30 "A label of 20 chars.": wider and higher than 100x30.
LabelledShapeGrownWitness ==
    /\ IsLabelledGeo
    /\ RenderSizingLine(sizingIn) = "rect 100x30 \"A label of 20 chars.\""
    /\ sizingOut.drawn.value.w = LabelEstimate(sizingIn).w
    /\ sizingOut.drawn.value.w > 100
    /\ sizingOut.drawn.value.h = LabelEstimate(sizingIn).h
    /\ sizingOut.drawn.value.h > 30

\* ellipse "Top" dimensions=400x200: the label fits, the dimensions are kept.
LabelledShapeKeptWitness ==
    /\ IsLabelledGeo
    /\ RenderSizingLine(sizingIn) = "ellipse \"Top\" dimensions=400x200"
    /\ LabelEstimate(sizingIn).w < 400 /\ LabelEstimate(sizingIn).h < 200
    /\ sizingOut.drawn = Ok([h |-> 200, w |-> 400, x |-> 0, y |-> 0])

-----------------------------------------------------------------------------
(* Preview server: preview/server.ts, with the addShapeToFile calls other   *)
(* processes make on the file it serves.  The file watcher is off           *)
(* (config.watch defaults to false).  A document is modelled by the names   *)
(* of its records, its schema and its format version; an error message by   *)
(* the words of its text.                                                   *)

TLDRAW_FILE_FORMAT_VERSION == 1

MaxMessages == 1

Sockets == {"wsA", "wsB"}

Document(names, version) ==
    [records |-> names, schema |-> "schema", tldrawFileFormatVersion |-> version]

\* The documents a client sends in a save message: two documents of the
\* current format, one of a later format version, and three things that are
\* no document (version 0, no records array, null).
SaveDocuments ==
    { Document({"e"}, 1), Document({"f"}, 1), Document({"e"}, 2), Document({"e"}, 0),
      [schema |-> "schema", tldrawFileFormatVersion |-> 1], Null }

\* What a socket sends: text that is not JSON, a ping, a message of an
\* unknown type, and save messages.
RawPayloads ==
    {[json |-> "{"], [type |-> "ping"], [type |-> "resize"]}
      \cup {[type |-> "save", document |-> d] : d \in SaveDocuments}

READONLY_MESSAGE ==
    <<"Preview", "is", "in", "readonly", "mode;", "save", "operations", "are", "disabled.">>

toPreviewDocument(value) ==
    IF value = Null THEN Err(<<"Preview", "message", "must", "be", "an", "object">>)
    ELSE IF "records" \notin DOMAIN value
    THEN Err(<<"Invalid", "preview", "document:", "records", "must", "be", "an", "array">>)
    ELSE IF "schema" \notin DOMAIN value
    THEN Err(<<"Invalid", "preview", "document:", "schema", "must", "be", "an", "object">>)
    ELSE IF value.tldrawFileFormatVersion <= 0
    THEN Err(<<"Invalid", "preview", "document:", "tldrawFileFormatVersion", "must", "be",
               "a", "positive", "integer">>)
    ELSE Ok(Document(value.records, value.tldrawFileFormatVersion))

parseClientMessage(raw) ==
    IF "type" \notin DOMAIN raw
    THEN Err(<<"Preview", "message", "is", "not", "valid", "JSON">>)
    ELSE IF raw.type = "ping" THEN Ok([type |-> "ping"])
    ELSE IF raw.type = "save" THEN Ok([type |-> "save", document |-> raw.document])
    ELSE Err(<<"Unsupported", "preview", "message", "type">>)

\* readTldrawFile (parseRawFile) on a file that holds a preview document.
readTldrawFile(file) ==
    IF file.tldrawFileFormatVersion > TLDRAW_FILE_FORMAT_VERSION
    THEN Err(<<"Unsupported", ".tldr", "file", "format", "version">>)
    ELSE Ok(file.records)

\* exportFileToSvg: the drawing of the records readTldrawFile loaded.
exportFileToSvg(file) == readTldrawFile(file)

ErrorMessage(text) == [type |-> "error", message |-> text]
SavedMessage == [type |-> "saved"]
DocumentMessage(document, svg) ==
    [type |-> "document", document |-> document, readonly |-> readonly, svg |-> svg]

IsOpenSocket(ws) == \E k \in DOMAIN clients : clients[k] = ws

\* sendMessage: nothing is sent on a socket that is not open.  Each entry of
\* the log also records the message handler that sent it (0: the connection
\* handler).
sendMessage(log, ws, message, handler) ==
    IF IsOpenSocket(ws)
    THEN Append(log, [to |-> ws, message |-> message, handler |-> handler])
    ELSE log

RECURSIVE SendToAll(_, _, _, _)
SendToAll(log, sockets, message, handler) ==
    IF sockets = <<>> THEN log
    ELSE SendToAll(sendMessage(log, Head(sockets), message, handler), Tail(sockets),
                   message, handler)

\* The message handler up to its first await: where it stands afterwards,
\* what it answered, and the document it is about to write.
HandleMessageAlways(raw) ==
    LET message == parseClientMessage(raw) IN
    IF IsError(message)
    THEN [pc |-> "done", reply |-> ErrorMessage(message.message), document |-> Null]
    ELSE IF message.value.type = "ping"
    THEN [pc |-> "done", reply |-> Null, document |-> Null]
    ELSE LET document == toPreviewDocument(message.value.document) IN
         IF IsError(document)
         THEN [pc |-> "done", reply |-> ErrorMessage(document.message), document |-> Null]
         ELSE [pc |-> "write", reply |-> Null, document |-> document.value]

HandleMessage(raw) ==
    LET message == parseClientMessage(raw) IN
    IF IsError(message)
    THEN [pc |-> "done", reply |-> ErrorMessage(message.message), document |-> Null]
    ELSE IF message.value.type = "ping"
    THEN [pc |-> "done", reply |-> Null, document |-> Null]
    ELSE IF readonly
    THEN [pc |-> "done", reply |-> ErrorMessage(READONLY_MESSAGE), document |-> Null]
    ELSE LET document == toPreviewDocument(message.value.document) IN
         IF IsError(document)
         THEN [pc |-> "done", reply |-> ErrorMessage(document.message), document |-> Null]
         ELSE [pc |-> "write", reply |-> Null, document |-> document.value]

Adders == {"addA", "addB"}
AdderShape(p) == IF p = "addA" THEN "a" ELSE "b"

InitialFile == Document({"s"}, 1)

InitPreview ==
    /\ readonly \in BOOLEAN
    /\ previewFile = InitialFile
    /\ clients = <<>>
    /\ greeting = [ws \in Sockets |-> [pc |-> "none"]]
    /\ handlers = <<>>
    /\ publishQueue = <<>>
    /\ publishing = Null
    /\ sent = <<>>
    /\ adders = [p \in {} |-> [pc |-> "read", store |-> {}]]
    /\ LayoutIdle /\ LexIdle /\ DslIdle /\ DrawIdle /\ SizingIdle /\ CallIdle

PreviewOthers == <<layoutVars, lexVars, dslVars, drawVars, sizingVars, callVars>>

\* wsServer.on('connection'): the socket joins clients; its first document
\* is read next.
Connect(ws) ==
    /\ greeting[ws].pc = "none"
    /\ clients' = Append(clients, ws)
    /\ greeting' = [greeting EXCEPT ![ws] = [pc |-> "read"]]
    /\ UNCHANGED <<readonly, previewFile, handlers, publishQueue, publishing, sent, adders,
                   PreviewOthers>>

\* The connection handler's await readPreviewDocument.
GreetRead(ws) ==
    /\ greeting[ws].pc = "read"
    /\ LET document == toPreviewDocument(previewFile) IN
       IF IsError(document)
       THEN /\ sent' = sendMessage(sent, ws, ErrorMessage(document.message), 0)
            /\ greeting' = [greeting EXCEPT ![ws] = [pc |-> "done"]]
       ELSE /\ sent' = sent
            /\ greeting' = [greeting EXCEPT ![ws] =
                              [pc |-> "export", document |-> document.value]]
    /\ UNCHANGED <<readonly, previewFile, clients, handlers, publishQueue, publishing, adders,
                   PreviewOthers>>

\* The connection handler's await exportFileToSvg, and the message it sends.
GreetSend(ws) ==
    /\ greeting[ws].pc = "export"
    /\ LET svg == exportFileToSvg(previewFile) IN
       sent' = sendMessage(sent, ws,
                           IF IsError(svg) THEN ErrorMessage(svg.message)
                           ELSE DocumentMessage(greeting[ws].document, svg.value), 0)
    /\ greeting' = [greeting EXCEPT ![ws] = [pc |-> "done"]]
    /\ UNCHANGED <<readonly, previewFile, clients, handlers, publishQueue, publishing, adders,
                   PreviewOthers>>

\* ws.on('close'): the socket leaves clients.
Close(ws) ==
    /\ IsOpenSocket(ws)
    /\ clients' = SelectSeq(clients, LAMBDA c : c # ws)
    /\ UNCHANGED <<readonly, previewFile, greeting, handlers, publishQueue, publishing, sent,
                   adders, PreviewOthers>>

\* ws.on('message'), up to the await of writeFile.
Receive(ws, raw) ==
    /\ IsOpenSocket(ws)
    /\ Len(handlers) < MaxMessages
    /\ LET h == HandleMessage(raw)
           i == Len(handlers) + 1
       IN /\ handlers' = Append(handlers, [ws |-> ws, raw |-> raw, pc |-> h.pc,
                                           document |-> h.document, wrote |-> FALSE])
          /\ sent' = IF h.reply = Null THEN sent ELSE sendMessage(sent, ws, h.reply, i)
    /\ UNCHANGED <<readonly, previewFile, clients, greeting, publishQueue, publishing, adders,
                   PreviewOthers>>

\* writeFile completes, and the handler calls publishDocument, which chains
\* its runPublish on publishQueue.
WriteFile(i) ==
    /\ handlers[i].pc = "write"
    /\ previewFile' = handlers[i].document
    /\ handlers' = [handlers EXCEPT ![i].pc = "publish", ![i].wrote = TRUE]
    /\ publishQueue' = Append(publishQueue, i)
    /\ UNCHANGED <<readonly, clients, greeting, publishing, sent, adders, PreviewOthers>>

\* runPublish throws: the handler that awaits it answers with the error.
RejectPublish(text) ==
    LET i == Head(publishQueue) IN
    /\ sent' = sendMessage(sent, handlers[i].ws, ErrorMessage(text), i)
    /\ handlers' = [handlers EXCEPT ![i].pc = "done"]
    /\ publishQueue' = Tail(publishQueue)
    /\ publishing' = Null

\* The first runPublish of the chain reads the file.
PublishRead ==
    /\ publishQueue # <<>>
    /\ publishing = Null
    /\ LET document == toPreviewDocument(previewFile) IN
       IF IsError(document)
       THEN RejectPublish(document.message)
       ELSE /\ publishing' = document
            /\ UNCHANGED <<handlers, publishQueue, sent>>
    /\ UNCHANGED <<readonly, previewFile, clients, greeting, adders, PreviewOthers>>

\* It exports the file and sends the document to every client; the handler
\* that awaited it then sends saved.
PublishSend ==
    /\ publishQueue # <<>>
    /\ publishing # Null
    /\ LET i == Head(publishQueue)
           svg == exportFileToSvg(previewFile)
       IN IF IsError(svg)
          THEN RejectPublish(svg.message)
          ELSE /\ sent' = sendMessage(
                              SendToAll(sent, clients,
                                        DocumentMessage(publishing.value, svg.value), i),
                              handlers[i].ws, SavedMessage, i)
               /\ handlers' = [handlers EXCEPT ![i].pc = "done"]
               /\ publishQueue' = Tail(publishQueue)
               /\ publishing' = Null
    /\ UNCHANGED <<readonly, previewFile, clients, greeting, adders, PreviewOthers>>

\* addShapeToFile in another process: await readTldrawFile.
AddRead(p) ==
    /\ adders[p].pc = "read"
    /\ LET store == readTldrawFile(previewFile) IN
       adders' = [adders EXCEPT ![p] =
                    IF IsError(store) THEN [pc |-> "failed", store |-> {}]
                    ELSE [pc |-> "write", store |-> store.value]]
    /\ UNCHANGED <<readonly, previewFile, clients, greeting, handlers, publishQueue,
                   publishing, sent, PreviewOthers>>

\* store.put of the new shape and await writeTldrawFile.
AddWrite(p) ==
    /\ adders[p].pc = "write"
    /\ previewFile' = Document(adders[p].store \cup {AdderShape(p)}, TLDRAW_FILE_FORMAT_VERSION)
    /\ adders' = [adders EXCEPT ![p].pc = "done"]
    /\ UNCHANGED <<readonly, clients, greeting, handlers, publishQueue, publishing, sent,
                   PreviewOthers>>

NextPreview ==
    \/ \E ws \in Sockets : Connect(ws)
    \/ \E ws \in Sockets : GreetRead(ws)
    \/ \E ws \in Sockets : GreetSend(ws)
    \/ \E ws \in Sockets : Close(ws)
    \/ \E ws \in Sockets, raw \in RawPayloads : Receive(ws, raw)
    \/ \E i \in DOMAIN handlers : WriteFile(i)
    \/ PublishRead
    \/ PublishSend

SpecPreview == InitPreview /\ [][NextPreview]_vars

\* A writable session one client has joined, and two addShapeToFile calls
\* started by other processes.
InitWriters ==
    /\ readonly = FALSE
    /\ previewFile = InitialFile
    /\ clients = <<"wsA">>
    /\ greeting = [ws \in Sockets |-> [pc |-> IF ws = "wsA" THEN "done" ELSE "none"]]
    /\ handlers = <<>>
    /\ publishQueue = <<>>
    /\ publishing = Null
    /\ sent = <<[to |-> "wsA", handler |-> 0,
                 message |-> DocumentMessage(InitialFile, InitialFile.records)]>>
    /\ adders = [p \in Adders |-> [pc |-> "read", store |-> {}]]
    /\ LayoutIdle /\ LexIdle /\ DslIdle /\ DrawIdle /\ SizingIdle /\ CallIdle

NextWriters ==
    \/ \E ws \in Sockets, raw \in RawPayloads : Receive(ws, raw)
    \/ \E i \in DOMAIN handlers : WriteFile(i)
    \/ PublishRead
    \/ PublishSend
    \/ \E p \in Adders : AddRead(p)
    \/ \E p \in Adders : AddWrite(p)

SpecWriters == InitWriters /\ [][NextWriters]_vars

-----------------------------------------------------------------------------
(* Readonly preview sessions                                                *)

IsSaveRequest(h) == "type" \in DOMAIN h.raw /\ h.raw.type = "save"

Mentions(text, word) == \E k \in DOMAIN text : text[k] = word

\* Handler i sent message number k of the log to the socket it serves.
AnsweredBy(i, k) == sent[k].handler = i /\ sent[k].to = handlers[i].ws

AnsweredReadonly(i) ==
    \E k \in DOMAIN sent :
        /\ AnsweredBy(i, k)
        /\ sent[k].message.type = "error"
        /\ Mentions(sent[k].message.message, "readonly")

ReadonlyState ==
    readonly =>
        /\ publishQueue = <<>>
        /\ \A i \in DOMAIN handlers :
            /\ handlers[i].pc = "done"
            /\ ~handlers[i].wrote
            /\ IsSaveRequest(handlers[i]) => AnsweredReadonly(i)
        /\ \A k \in DOMAIN sent : sent[k].handler # 0 => sent[k].message.type = "error"

ReadonlyStep == readonly => previewFile' = previewFile

\* C22: in a readonly preview session no step changes the file; every save
\* message has been answered to its sender with an error whose text
\* mentions readonly, no handler wrote the file or queued a publish, and no
\* message handler sent a document or a saved message.
PreviewReadonlyKeepsFile == []ReadonlyState /\ [][ReadonlyStep]_vars

\* A readonly session with both sockets open in which a save of a well-formed
\* document was refused.
PreviewReadonlyRefusedWitness ==
    /\ readonly
    /\ IsOpenSocket("wsA") /\ IsOpenSocket("wsB")
    /\ \E i \in DOMAIN handlers :
        /\ handlers[i].raw = [type |-> "save", document |-> Document({"e"}, 1)]
        /\ AnsweredReadonly(i)
        /\ previewFile = InitialFile

-----------------------------------------------------------------------------
(* Saves in a writable preview session                                      *)

\* The messages the step sends, in order.
NewMessages == SubSeq(sent', Len(sent) + 1, Len(sent'))

\* The handlers of save messages the step finishes, their socket being open.
SettlingSaves ==
    {i \in DOMAIN handlers' :
        /\ IsSaveRequest(handlers'[i])
        /\ handlers'[i].pc = "done"
        /\ i \in DOMAIN handlers => handlers[i].pc # "done"
        /\ IsOpenSocket(handlers'[i].ws)}

\* Handler i has written its document; the step sends that document to every
\* other open socket, and saved to the sender after them.
SavedAfterBroadcast(i) ==
    /\ handlers'[i].wrote
    /\ NewMessages # <<>>
    /\ NewMessages[Len(NewMessages)] =
           [to |-> handlers'[i].ws, message |-> SavedMessage, handler |-> i]
    /\ \A ws \in Sockets :
        (IsOpenSocket(ws) /\ ws # handlers'[i].ws) =>
            \E k \in 1..(Len(NewMessages) - 1) :
                /\ NewMessages[k].to = ws
                /\ NewMessages[k].message.type = "document"
                /\ NewMessages[k].message.document = handlers'[i].document

\* Handler i has not written the file; the step sends one error, to the sender.
RefusedUnwritten(i) ==
    /\ ~handlers'[i].wrote
    /\ Len(NewMessages) = 1
    /\ NewMessages[1].to = handlers'[i].ws
    /\ NewMessages[1].message.type = "error"

SaveSettles ==
    ~readonly => \A i \in SettlingSaves : SavedAfterBroadcast(i) \/ RefusedUnwritten(i)

\* C23: in a writable session the step that finishes a save either finds its
\* document written to the file, sends it to every other open socket and
\* then sends saved to the sender, or sends the sender an error with the
\* file never written by that save.
PreviewSaveWritesThenBroadcasts == [][SaveSettles]_vars

SaveOfCurrentFormatSettles ==
    ~readonly =>
        \A i \in SettlingSaves :
            (/\ Len(handlers') = 1
             /\ \/ handlers'[i].document = Null
                \/ handlers'[i].document.tldrawFileFormatVersion <= TLDRAW_FILE_FORMAT_VERSION)
            => /\ SavedAfterBroadcast(i) \/ RefusedUnwritten(i)
               /\ handlers'[i].wrote => previewFile' = handlers'[i].document

\* The same for a save no other message overlaps with, whose document is of
\* the current format version or is no document at all.
PreviewSaveOfCurrentFormat == [][SaveOfCurrentFormatSettles]_vars

\* A save of a document of format version 2 was answered with an error, and
\* the file holds that document.
PreviewSaveErrorWroteWitness ==
    /\ ~readonly
    /\ \E i \in DOMAIN handlers :
        /\ handlers[i].raw = [type |-> "save", document |-> Document({"e"}, 2)]
        /\ handlers[i].pc = "done"
        /\ IsOpenSocket(handlers[i].ws)
        /\ previewFile = Document({"e"}, 2)
        /\ \E k \in DOMAIN sent : AnsweredBy(i, k) /\ sent[k].message.type = "error"
        /\ \A k \in DOMAIN sent : sent[k].handler = i => sent[k].message.type = "error"

\* A save from wsA was written, sent to wsB, and then acknowledged.
PreviewSavedWitness ==
    /\ ~readonly
    /\ previewFile = Document({"e"}, 1)
    /\ \E s \in DOMAIN sent :
        /\ sent[s].to = "wsA" /\ sent[s].message = SavedMessage
        /\ \E k \in 1..(s - 1) :
            /\ sent[k].to = "wsB" /\ sent[k].handler = sent[s].handler
            /\ sent[k].message.type = "document"
            /\ sent[k].message.document = Document({"e"}, 1)

-----------------------------------------------------------------------------
(* Writers of one file                                                      *)

WritersFinished ==
    /\ \A p \in DOMAIN adders : adders[p].pc \in {"done", "failed"}
    /\ \A i \in DOMAIN handlers : handlers[i].pc = "done"

\* The shapes that were written to the file by some writer.
ShapesWritten ==
    {AdderShape(p) : p \in {q \in DOMAIN adders : adders[q].pc = "done"}}
      \cup UNION {handlers[i].document.records : i \in {j \in DOMAIN handlers : handlers[j].wrote}}

\* C30: once the addShapeToFile calls and the saves on a file have all
\* finished, the file holds every shape one of them wrote.
ConcurrentWritersKeepUpdates ==
    WritersFinished => ShapesWritten \subseteq previewFile.records

\* Both addShapeToFile calls read the file before either wrote it: the file
\* holds the shape of the second writer only.
LostAddWitness ==
    /\ handlers = <<>>
    /\ \A p \in Adders : adders[p].pc = "done" /\ adders[p].store = {"s"}
    /\ previewFile = Document({"s", "b"}, 1)

\* An addShapeToFile call read the file before a save was written and wrote
\* afterwards: the saved document is gone.
LostSaveWitness ==
    /\ adders["addA"].pc = "done"
    /\ adders["addB"].pc = "read"
    /\ \E i \in DOMAIN handlers :
        /\ handlers[i].wrote
        /\ handlers[i].document = Document({"e"}, 1)
    /\ previewFile = Document({"s", "a"}, 1)

-----------------------------------------------------------------------------
(* The z-order of frames after a batch                                      *)

\* applyDrawInstructions has added every instruction and moved the frames.
DrawReindexed == drawPc \in {"expand", "done"} /\ ~IsError(drawOut)

FrameIndices(file) ==
    {file.shapes[i].index : i \in {j \in 1..Len(file.shapes) : file.shapes[j].type = "frame"}}

OtherIndices(file) ==
    {file.shapes[i].index : i \in {j \in 1..Len(file.shapes) : file.shapes[j].type # "frame"}}

\* C24: once applyDrawInstructions has run on a page, the index of every
\* frame of the page is strictly below the index of every shape that is no
\* frame.
FramesBelowOtherShapes ==
    DrawReindexed =>
        \A f \in FrameIndices(drawFile) : \A o \in OtherIndices(drawFile) : f < o

\* A batch that adds a frame after a rectangle: the frame was added with the
\* higher index and ends below the rectangle.
FrameMovedBelowWitness ==
    /\ drawPc = "done" /\ IsOk(drawOut)
    /\ drawIn = <<"rect 0,0 \"A\" id=a", "frame \"F\"">>
    /\ drawBefore = EmptyFile
    /\ FrameIndices(drawPrev) = {} /\ OtherIndices(drawPrev) = {1}
    /\ FrameIndices(drawFile) = {0} /\ OtherIndices(drawFile) = {1}

-----------------------------------------------------------------------------
(* Distinct indices                                                         *)

IndicesDistinct(file) ==
    \A i, j \in 1..Len(file.shapes) :
        file.shapes[i].index = file.shapes[j].index => i = j

\* The shape the last addShapeToFile call put is above every shape the call
\* found on the page.
AddedShapeOnTop ==
    (drawPc = "add" /\ drawIds # << >>) =>
        \A i \in 1..Len(drawPrev.shapes) :
            drawPrev.shapes[i].index < ShapeWithId(drawFile, drawIds[Len(drawIds)]).index

\* C25: whatever was added and drawn, no two shapes of the page have the
\* same index.
ShapeIndicesDistinct == IndicesDistinct(drawFile)

\* A batch of a frame, a rectangle and a second frame: the second frame is
\* moved to the index the first frame has.
FramesShareIndexWitness ==
    /\ drawPc = "done" /\ IsOk(drawOut)
    /\ drawBefore = EmptyFile
    /\ drawIn = <<"frame \"F\"", "rect 0,0 \"A\" id=a", "frame 500,500 200x100 \"I\"">>
    /\ IndicesDistinct(drawPrev)
    /\ Cardinality({i \in 1..Len(drawFile.shapes) :
                       drawFile.shapes[i].type = "frame" /\ drawFile.shapes[i].index = 1}) = 2

-----------------------------------------------------------------------------
(* Placed rectangles do not overlap                                         *)

\* The open rectangles of two placed shapes have no point in common.
InteriorsDisjoint(p, q) ==
    \/ p.x + p.shape.w <= q.x
    \/ q.x + q.shape.w <= p.x
    \/ p.y + p.shape.h <= q.y
    \/ q.y + q.shape.h <= p.y

PairwiseDisjoint(out) ==
    \A i, j \in 1..Len(out) : i # j => InteriorsDisjoint(out[i], out[j])

\* Each shape of a stack starts at least gap after the end of the one before.
StackSeparated(out, direction, gap) ==
    \A i \in 1..(Len(out) - 1) :
        IF direction = "vertical"
        THEN out[i + 1].y >= out[i].y + out[i].shape.h + gap
        ELSE out[i + 1].x >= out[i].x + out[i].shape.w + gap

\* In a grid, a shape starts at least gap after the end of the shape in the
\* column before it of its row, and of the shape in the row before it of its
\* column.
GridSeparated(out, cols, gap) ==
    \A i, j \in 1..Len(out) :
        /\ ((i - 1) \div cols = (j - 1) \div cols /\ (j - 1) % cols = ((i - 1) % cols) + 1)
               => out[j].x >= out[i].x + out[i].shape.w + gap
        /\ ((i - 1) % cols = (j - 1) % cols /\ (j - 1) \div cols = ((i - 1) \div cols) + 1)
               => out[j].y >= out[i].y + out[i].shape.h + gap

LayoutValidCall ==
    /\ layoutOut # Pending
    /\ ValidLayoutInput(layoutArgs)
    /\ layoutArgs.fn = "gridShapes" => IsInteger(layoutArgs.cols) /\ layoutArgs.cols > 0

\* C26: for valid input the rectangles stackShapes and gridShapes place have
\* pairwise disjoint interiors, and consecutive shapes along an axis are at
\* least gap apart.
LayoutShapesDisjoint ==
    LayoutValidCall =>
        /\ IsOk(layoutOut)
        /\ PairwiseDisjoint(layoutOut.value)
        /\ IF layoutArgs.fn = "stackShapes"
           THEN StackSeparated(layoutOut.value, layoutArgs.direction, layoutArgs.gap)
           ELSE GridSeparated(layoutOut.value, layoutArgs.cols, layoutArgs.gap)

\* A grid of three shapes of different sizes in two columns, gap 7.
GridDisjointWitness ==
    /\ LayoutValidCall
    /\ layoutArgs.fn = "gridShapes" /\ layoutArgs.cols = 2 /\ layoutArgs.gap = 7
    /\ layoutArgs.shapes = <<[w |-> 30, h |-> 20], [w |-> 20, h |-> 30], [w |-> 20, h |-> 20]>>
    /\ layoutOut.value[2].x = layoutOut.value[1].x + 37
    /\ layoutOut.value[3].y = layoutOut.value[1].y + 37

\* A horizontal stack of three shapes with gap 0: the shapes touch.
StackTouchingWitness ==
    /\ LayoutValidCall
    /\ layoutArgs.fn = "stackShapes" /\ layoutArgs.direction = "horizontal"
    /\ layoutArgs.gap = 0 /\ Len(layoutArgs.shapes) = 3
    /\ layoutOut.value[2].x = layoutOut.value[1].x + layoutOut.value[1].shape.w

-----------------------------------------------------------------------------
(* Commands on one file, one after the other: commands/add.ts,              *)
(* commands/draw.ts, commands/remove.ts                                     *)

isShapeId(value) == StartsWith(value, "shape:")

\* shapeIdsToRemove, as the positions of the shapes in store order.
ShapesToRemove(file, target, all) ==
    {i \in 1..Len(file.shapes) :
        \/ all
        \/ IF isShapeId(target) THEN file.shapes[i].id = target
           ELSE getShapeLabel(file.shapes[i]) = target}

\* removeShapesFromFile: the file it writes and the ids it returns, or the
\* error it throws.  store.remove takes the shape records out of the store.
removeShapesFromFile(file, target, all) ==
    LET positions == ShapesToRemove(file, target, all) IN
    IF ~all /\ target = ""
    THEN Err("remove requires a target label/id unless --all is used")
    ELSE IF positions = {}
    THEN IF all THEN Ok([file |-> file, removed |-> << >>])
         ELSE Err("No shapes matched target \"" \o target \o "\"")
    ELSE Ok([file |-> [file EXCEPT !.shapes =
                          SelectSeq(@, LAMBDA shape :
                              \A i \in positions : file.shapes[i].id # shape.id)],
             removed |-> [k \in 1..Cardinality(positions) |->
                            file.shapes[CHOOSE i \in positions :
                                Cardinality({j \in positions : j <= i}) = k].id]])

MaxEdits == 3

\* The shapes the commands add, written as the DSL lines that stand for them.
EditLines ==
    {"rect 0,0 \"A\" id=a",
     "rect 0,200 \"B\"",
     "arrow \"A\" -> \"B\"",
     "arrow shape:a -> 400,60"}

EditSources == UNION {[1..n -> EditLines] : n \in 1..2}

EditTargets == {"A", "B", "shape:a", ""}

\* A file createFile has just written; no command is running.
InitEdit ==
    /\ drawIn = << >>
    /\ drawFile = EmptyFile
    /\ drawBefore = EmptyFile
    /\ drawPrev = EmptyFile
    /\ drawLast = Idle
    /\ drawQueue = << >>
    /\ drawIds = << >>
    /\ drawFresh = 0
    /\ drawPc = "done"
    /\ drawOut = Ok(<< >>)
    /\ LayoutIdle /\ LexIdle /\ DslIdle /\ SizingIdle /\ CallIdle
    /\ PreviewIdle

EditOthers == <<layoutVars, lexVars, dslVars, sizingVars, callVars, previewVars>>

\* The draw command is started on a source.
EditDraw(lines) ==
    /\ drawPc = "done"
    /\ drawFresh + Len(lines) <= MaxEdits
    /\ drawIn' = lines
    /\ drawBefore' = drawFile
    /\ drawPrev' = drawFile
    /\ drawLast' = Idle
    /\ drawQueue' = << >>
    /\ drawIds' = << >>
    /\ drawPc' = "parse"
    /\ drawOut' = Pending
    /\ UNCHANGED <<drawFile, drawFresh, EditOthers>>

EditAdded(added) ==
    /\ drawFile' = IF IsError(added) THEN drawFile ELSE added.value.file
    /\ drawIds' = IF IsError(added) THEN << >> ELSE <<added.value.id>>
    /\ drawOut' = IF IsError(added) THEN added ELSE Ok(<<added.value.id>>)

\* The add command: one addShapeToFile call.
EditAdd(line) ==
    /\ drawPc = "done"
    /\ drawFresh < MaxEdits
    /\ EditAdded(addShapeToFile(drawFile, parseDsl(<<line>>).value[1].shape,
                                ContentOf(parseDsl(<<line>>).value[1]),
                                parseDsl(<<line>>).value[1].options, drawFresh + 1))
    /\ drawPrev' = drawFile
    /\ drawLast' = parseDsl(<<line>>).value[1]
    /\ drawFresh' = drawFresh + 1
    /\ UNCHANGED <<drawIn, drawBefore, drawQueue, drawPc, EditOthers>>

EditRemoved(removed) ==
    /\ drawFile' = IF IsError(removed) THEN drawFile ELSE removed.value.file
    /\ drawOut' = IF IsError(removed) THEN removed ELSE Ok(removed.value.removed)

\* The remove command.
EditRemove(target, all) ==
    /\ drawPc = "done"
    /\ EditRemoved(removeShapesFromFile(drawFile, target, all))
    /\ drawPrev' = drawFile
    /\ drawLast' = Idle
    /\ UNCHANGED <<drawIn, drawBefore, drawQueue, drawIds, drawFresh, drawPc, EditOthers>>

NextEdit ==
    \/ DrawParse
    \/ DrawAddShape
    \/ DrawReindexFrames
    \/ DrawExpandFrames
    \/ \E lines \in EditSources : EditDraw(lines)
    \/ \E line \in EditLines : EditAdd(line)
    \/ \E target \in EditTargets, all \in BOOLEAN : EditRemove(target, all)

SpecEdit == InitEdit /\ [][NextEdit]_vars

HasShape(file, id) == \E i \in 1..Len(file.shapes) : file.shapes[i].id = id

HasArrow(file, id) ==
    \E i \in 1..Len(file.shapes) : file.shapes[i].id = id /\ file.shapes[i].type = "arrow"

BindingsResolve(file) ==
    \A k \in 1..Len(file.bindings) :
        /\ HasArrow(file, file.bindings[k].fromId)
        /\ HasShape(file, file.bindings[k].toId)

\* C27: whatever was added, drawn and removed, every arrow binding of the
\* file goes from an arrow of the file to a shape of the file.
BindingsAlwaysResolve == BindingsResolve(drawFile)

\* The same for the steps that remove no shape: they keep the bindings
\* resolved.
BindingsResolveWithoutRemove ==
    [][(BindingsResolve(drawFile) /\ Len(drawFile'.shapes) >= Len(drawFile.shapes))
           => BindingsResolve(drawFile')]_vars

\* The rectangle an arrow starts on was removed: the arrow and its binding
\* to the rectangle are still in the file.
DanglingBindingWitness ==
    /\ drawPc = "done"
    /\ drawOut = Ok(<<"shape:a">>)
    /\ BindingsResolve(drawPrev)
    /\ ~HasShape(drawFile, "shape:a")
    /\ \E k \in 1..Len(drawFile.bindings) :
        /\ drawFile.bindings[k].toId = "shape:a"
        /\ HasArrow(drawFile, drawFile.bindings[k].fromId)

-----------------------------------------------------------------------------
(* Tokens written in double quotes                                          *)

IsQuotedTokenSource == DslDone /\ dslIn.form = "quotedToken"

\* The instruction of a shape line whose only token after the kind is text:
\* the text is the label of a rect and the content of a note.
TextOnlyInstruction(kind, text) ==
    IF kind = "rect" THEN [options |-> [k \in {"label"} |-> text], shape |-> kind]
    ELSE [content |-> text, options |-> NoOptions, shape |-> kind]

\* C28: a token written in double quotes is read as text.  On a shape line it
\* is the label or content as written, never a position, a size or an
\* option; on an arrow line it is never the `->` marker, so `arrow A "x" B`
\* has no marker and fails.
QuotedTokenReadAsText ==
    IsQuotedTokenSource =>
        IF dslIn.kind = "arrow" THEN IsError(dslOut)
        ELSE dslOut = Ok(<<TextOnlyInstruction(dslIn.kind, dslIn.text)>>)

\* The same for the quoted texts the parser does read as text: on a shape
\* line those with no `=` that are not of the form of a position or a size,
\* on an arrow line all but `->`.
PlainQuotedTexts(kind) ==
    IF kind = "arrow" THEN QuotedTexts \ {"->"} ELSE {"->", "Header"}

QuotedPlainTextReadAsText ==
    (IsQuotedTokenSource /\ dslIn.text \in PlainQuotedTexts(dslIn.kind)) =>
        IF dslIn.kind = "arrow" THEN IsError(dslOut)
        ELSE dslOut = Ok(<<TextOnlyInstruction(dslIn.kind, dslIn.text)>>)

\* rect "0,0": the quoted token is taken as the position, and the rectangle
\* has no label.
QuotedPositionWitness ==
    /\ IsQuotedTokenSource
    /\ dslIn.kind = "rect" /\ dslIn.text = "0,0"
    /\ tokenize("rect \"0,0\"", "line 1").value[2] = [quoted |-> TRUE, value |-> "0,0"]
    /\ dslOut = Ok(<<[options |-> [k \in {"pos"} |-> "0,0"], shape |-> "rect"]>>)

\* arrow A "->" B: the quoted token is taken as the marker.
QuotedMarkerWitness ==
    /\ IsQuotedTokenSource
    /\ dslIn.kind = "arrow" /\ dslIn.text = "->"
    /\ dslOut = Ok(<<[options |-> [k \in {"from", "to"} |-> IF k = "from" THEN "A" ELSE "B"],
                     shape |-> "arrow"]>>)

\* note "a=b": the quoted token is taken as an option with an unknown key.
QuotedOptionWitness ==
    /\ IsQuotedTokenSource
    /\ dslIn.kind = "note" /\ dslIn.text = "a=b"
    /\ IsError(dslOut)

-----------------------------------------------------------------------------
(* The order of a batch                                                     *)

\* The instruction gives its shape the name: as its label or content, or as
\* its id.
DefinesName(instruction, name) ==
    /\ instruction.shape # "arrow"
    /\ \/ ContentOf(instruction) = name
       \/ StyleOr(instruction.options, "label", "") = name
       \/ "shape:" \o StyleOr(instruction.options, "id", "") = name

DefinedLater(name) == \E k \in 1..Len(drawQueue) : DefinesName(drawQueue[k], name)

\* The loop has called addShapeToFile on the first instructions of the source
\* and on no other: what is left is the rest of the source, and the last call
\* was on the instruction just before it.
SourceOrderKept(parsed, calls) ==
    IsOk(parsed) =>
        /\ calls = Len(parsed.value) - Len(drawQueue)
        /\ drawQueue = SubSeq(parsed.value, calls + 1, Len(parsed.value))
        /\ calls > 0 => drawLast = parsed.value[calls]
        /\ Len(drawIds) = IF DrawFailed THEN calls - 1 ELSE calls

DrawnInSourceOrder == drawPc # "parse" => SourceOrderKept(parseDsl(drawIn), drawFresh)

\* An arrow whose end names no shape of the file as the call found it fails,
\* also when an instruction further down the batch defines that name.
ForwardReferenceFails ==
    LastWasArrow =>
        \A end \in {"from", "to"} :
            Unresolvable(drawLast.options[end], drawPrev) =>
                /\ DrawFailed
                /\ drawFile = drawPrev

\* The shapes the bindings of an added arrow go to were in the file before
\* the arrow was added.
BoundToEarlierShapes ==
    (LastWasArrow /\ ~DrawFailed /\ drawPc = "add") =>
        \A k \in 1..Len(drawFile.bindings) :
            drawFile.bindings[k].fromId = drawIds[Len(drawIds)] =>
                \E i \in 1..Len(drawPrev.shapes) :
                    drawPrev.shapes[i].id = drawFile.bindings[k].toId

\* C29: a batch is materialized strictly in source order, an arrow end given
\* by label or id resolves only against the shapes already in the document,
\* and an arrow that names a shape defined later in the batch fails.
BatchMaterializedInOrder ==
    DrawnInSourceOrder /\ ForwardReferenceFails /\ BoundToEarlierShapes

\* arrow "A" -> "B" before the rectangle labelled A, drawn into a file that
\* holds B: the arrow fails, the rectangle is never added.
ForwardReferenceWitness ==
    /\ DrawFailed
    /\ drawIn = <<"arrow \"A\" -> \"B\"", "rect 0,0 \"A\" id=a">>
    /\ drawBefore = SeedFile
    /\ drawFile = SeedFile
    /\ DefinedLater("A")
    /\ drawOut = Err("Unable to resolve arrow target \"A\" to a coordinate or shape")

\* The same two lines in the other order: the arrow is bound to both shapes.
BackwardReferenceWitness ==
    /\ drawPc = "done" /\ IsOk(drawOut)
    /\ drawIn = <<"rect 0,0 \"A\" id=a", "arrow \"A\" -> \"B\"">>
    /\ drawBefore = SeedFile
    /\ Len(drawFile.bindings) = 2

====
